---- MODULE Spec2Model ----
(***************************************************************************)
(* Model of the WhatsApp AI bot: three webhook endpoints (Twilio, Meta,    *)
(* WAHA), each with its own in-memory RateLimiter, one shared relational   *)
(* store (users, conversations, messages) and the MessageProcessor         *)
(* pipeline.  Handlers are asyncio coroutines on one event loop: an action *)
(* of the model is the code a coroutine runs between two real suspension   *)
(* points (httpx downloads and asyncio.to_thread AI calls).                *)
(***************************************************************************)
EXTENDS Integers, Sequences, FiniteSets, TLC

\* ------------------------------------------------------------------ bounds
MaxTime == 2          \* the clock runs over 0..MaxTime
MaxReq == 2           \* number of webhook requests that arrive
MaxN == 2             \* RateLimiter(max_requests) ranges over 1..MaxN (SpecRL)
MaxW == 2             \* RateLimiter(window_seconds) ranges over 1..MaxW (SpecRL)
MaxDenied == 2        \* denied calls in a row are counted up to this (SpecRL)
RateLimitMessages == 1        \* settings.rate_limit_messages of the deployment
RateLimitWindowSeconds == 1   \* settings.rate_limit_window_seconds
MaxConversationHistory == 2   \* settings.max_conversation_history

\* -------------------------------------------------------------- vocabulary
Providers == {"twilio", "meta", "waha"}
Senders == {"+1", "+2"}
\* settings.get_whitelisted_numbers(): the allow-list the deployment starts
\* with (WHITELISTED_USERS)
WhitelistedNumbers == {"+1"}
\* provider message identifiers of inbound events
Sids == {"m1", "m2"}
\* database.py:10-18  MessageType
MessageType == {"text", "image", "audio", "video", "document",
                "location", "contact", "unknown"}
Reqs == 1..MaxReq

VARIABLES
    now,             \* datetime.utcnow(), in whole seconds
    max_requests,    \* RateLimiter.max_requests, per instance
    window_seconds,  \* RateLimiter.window_seconds, per instance
    requests,        \* RateLimiter.requests: instance -> identifier -> list
    admitted,        \* history: every timestamp is_allowed returned True for
    users,           \* table users
    conversations,   \* table conversations
    messages,        \* table messages
    nreq,            \* number of requests that have arrived
    proc,            \* per request: position of its coroutine and its locals
    waha,            \* the running call of WAHAService.send_message
    unit,            \* the last call of a function checked on its own
    whitelisted_users  \* settings.get_whitelisted_numbers() of the process

rlvars == <<now, max_requests, window_seconds, requests, admitted>>
dbvars == <<users, conversations, messages>>
vars == <<now, max_requests, window_seconds, requests, admitted,
          users, conversations, messages, nreq, proc, waha, unit,
          whitelisted_users>>

\* ------------------------------------------------------------ RateLimiter
\* variant: a timestamp exactly window_seconds old is kept
PruneInclusive(ts, t, w) == SelectSeq(ts, LAMBDA req_time : req_time >= t - w)

\* rate_limiter.py:35-38  the list comprehension that drops old requests
Prune(ts, t, w) == SelectSeq(ts, LAMBDA req_time : req_time > t - w)

\* variant: the comparison of line 41 is off by one
LimitExceededOffByOne(ts, n) == Len(ts) > n

\* rate_limiter.py:41  "if len(...) >= self.max_requests: return False"
LimitExceeded(ts, n) == Len(ts) >= n

\* variant: a denied call records its timestamp too
is_allowed_recording_denied(ts, t, n, w) ==
    LET kept == Prune(ts, t, w)
    IN  [ok |-> ~LimitExceeded(kept, n), list |-> Append(kept, t)]

\* rate_limiter.py:21-46  is_allowed as a function of the stored list:
\* the returned flag and the list left behind
is_allowed(ts, t, n, w) ==
    LET kept == Prune(ts, t, w)
    IN  IF LimitExceeded(kept, n)
        THEN [ok |-> FALSE, list |-> kept]
        ELSE [ok |-> TRUE, list |-> Append(kept, t)]

\* variant: the handler admits every request
AllowedAlways(l, id, t) ==
    [ok |-> TRUE, list |-> Append(requests[l][id], t)]

\* the outcome of rate_limiter.is_allowed(id) on instance l at time t
Allowed(l, id, t) ==
    is_allowed(requests[l][id], t, max_requests[l], window_seconds[l])

\* variant: the list written back by a call is lost, as when a concurrent
\* call overwrites it with the list it read before
RLStepLostUpdate(l, id, t) ==
    /\ requests' = requests
    /\ admitted' = IF Allowed(l, id, t).ok
                   THEN [admitted EXCEPT ![l][id] = Append(@, t)]
                   ELSE admitted

\* one call rate_limiter.is_allowed(id) on instance l at time t
RLStep(l, id, t) ==
    /\ requests' = [requests EXCEPT ![l][id] = Allowed(l, id, t).list]
    /\ admitted' = IF Allowed(l, id, t).ok
                   THEN [admitted EXCEPT ![l][id] = Append(@, t)]
                   ELSE admitted

\* ------------------------------------------------------------ persistence
\* crud.py:26-28  UserCRUD.get_user_by_phone
get_user_by_phone(us, phone) == {u \in us : u.phone_number = phone}

\* variant: every new user is created whitelisted
get_or_create_user_all_listed(us, phone, whatsapp_name, whitelisted_numbers) ==
    IF get_user_by_phone(us, phone) # {}
    THEN us
    ELSE us \cup {[phone_number |-> phone, whatsapp_name |-> whatsapp_name,
                   is_whitelisted |-> TRUE]}

\* variant: the flag of an existing user follows the current allow-list
get_or_create_user_refreshed(us, phone, whatsapp_name, whitelisted_numbers) ==
    {IF u.phone_number = phone
     THEN [u EXCEPT !.is_whitelisted = phone \in whitelisted_numbers]
     ELSE u : u \in us}
      \cup IF get_user_by_phone(us, phone) # {} THEN {}
           ELSE {[phone_number |-> phone, whatsapp_name |-> whatsapp_name,
                  is_whitelisted |-> phone \in whitelisted_numbers]}

\* crud.py:31-37  UserCRUD.get_or_create_user: the users table afterwards
get_or_create_user(us, phone, whatsapp_name, whitelisted_numbers) ==
    IF get_user_by_phone(us, phone) # {}
    THEN us
    ELSE us \cup {[phone_number |-> phone, whatsapp_name |-> whatsapp_name,
                   is_whitelisted |-> phone \in whitelisted_numbers]}

\* the row get_or_create_user returns
TheUser(us, phone) == CHOOSE u \in us : u.phone_number = phone

\* crud.py:69-74  ConversationCRUD.get_active_conversation: the candidates
\* for .first() under ORDER BY updated_at DESC
get_active_conversation(cs, phone) ==
    LET act == {c \in cs : c.user = phone /\ c.is_active}
    IN  {c \in act : \A d \in act : d.updated_at <= c.updated_at}

\* variant: a conversation is opened for every call
always_create_conversation(cs, phone, t) ==
    cs \cup {[id |-> Cardinality(cs) + 1, user |-> phone,
              is_active |-> TRUE, updated_at |-> t]}

\* crud.py:77-82  ConversationCRUD.get_or_create_conversation: the table
get_or_create_conversation(cs, phone, t) ==
    IF get_active_conversation(cs, phone) # {}
    THEN cs
    ELSE cs \cup {[id |-> Cardinality(cs) + 1, user |-> phone,
                   is_active |-> TRUE, updated_at |-> t]}

\* the conversation get_or_create_conversation returns
TheConversation(cs, phone) ==
    CHOOSE c \in get_active_conversation(cs, phone) : TRUE

\* crud.py:163-165  MessageCRUD.get_message_by_sid
get_message_by_sid(ms, sid) == {m \in ms : m.twilio_message_sid = sid}

\* variant: the column is not unique
SidTakenNever(ms, sid) == FALSE

\* database.py:71  twilio_message_sid is declared unique=True: inserting a
\* row whose sid is already stored raises IntegrityError at commit
SidTaken(ms, sid) == get_message_by_sid(ms, sid) # {}

MaxId(ms) == IF ms = {} THEN 0
             ELSE CHOOSE i \in {m.id : m \in ms} : \A m \in ms : m.id <= i

\* database.py:66  messages.id is an Integer primary key and the default
\* database_url (settings.py:20-23) is SQLite, which issues max(rowid)+1:
\* the id of a deleted last row is issued again.
NewId(ms) == MaxId(ms) + 1

\* crud.py:89-114  MessageCRUD.create_message: the row that is inserted.
\* Of the columns of database.py:63-92 the row keeps those the program
\* reads back or the properties speak of; req is history: the request that
\* inserted the row.  created_at (database.py:91, utcnow at insert) orders
\* the stored rows as their ids do: a new id exceeds every stored one.
NewMessage(id, phone, conv, dir, sid, content, r) ==
    [id |-> id, user |-> phone, conversation_id |-> conv, direction |-> dir,
     twilio_message_sid |-> sid, content |-> content,
     is_processed |-> FALSE, error_message |-> "", ai_response |-> "",
     req |-> r]

\* crud.py:129-149  MessageCRUD.mark_as_processed (through update_message,
\* crud.py:117-126: a missing row is left alone).  Every call overwrites
\* both ai_response and error_message, None modelled as "".
mark_as_processed(ms, id, ai, err) ==
    {IF m.id = id
     THEN [m EXCEPT !.is_processed = TRUE, !.ai_response = ai,
                    !.error_message = err]
     ELSE m : m \in ms}

\* crud.py:117-126  MessageCRUD.update_message(db, message_id,
\* content=...): a missing row is left alone
update_content(ms, id, content) ==
    {IF m.id = id THEN [m EXCEPT !.content = content] ELSE m : m \in ms}

\* ORDER BY created_at DESC
RECURSIVE NewestFirst(_)
NewestFirst(S) ==
    IF S = {} THEN <<>>
    ELSE LET m == CHOOSE x \in S : \A y \in S : y.id <= x.id
         IN  <<m>> \o NewestFirst(S \ {m})

\* crud.py:152-160  MessageCRUD.get_conversation_history
get_conversation_history(ms, conv, limit) ==
    LET q == NewestFirst({m \in ms : m.conversation_id = conv})
    IN  SubSeq(q, 1, IF Len(q) < limit THEN Len(q) ELSE limit)

\* reversed(history_messages)
Reverse(q) == [i \in 1..Len(q) |-> q[Len(q) + 1 - i]]

\* message_processor.py:148-156  conversation_context: the rows with a
\* content, oldest first, as role/content entries
conversation_context(history_messages) ==
    LET kept == SelectSeq(Reverse(history_messages),
                          LAMBDA msg : msg.content # "")
    IN  [i \in 1..Len(kept) |->
           [role |-> IF kept[i].direction = "incoming"
                     THEN "user" ELSE "assistant",
            content |-> kept[i].content]]

\* conversation_context[:-1] if conversation_context else []
AllButLast(q) == IF q = <<>> THEN <<>> ELSE SubSeq(q, 1, Len(q) - 1)

\* openai_service.py:67-75  generate_response: the messages handed to the
\* model after the system prompt
generate_response_messages(user_message, conversation_history) ==
    Append(conversation_history, [role |-> "user", content |-> user_message])

\* message_processor.py:140-162  the context _process_text_message calls
\* the AI with
TextContext(ms, conv, message_text) ==
    generate_response_messages(
        message_text,
        AllButLast(conversation_context(
            get_conversation_history(ms, conv, MaxConversationHistory))))

\* ------------------------------------------------------------ reply texts
\* message_processor.py:116
UNSUPPORTED_TEXT == "Sorry, I cannot process this type of message yet."
\* message_processor.py:198, 243, 286
NO_IMAGE_TEXT == "Sorry, I couldn't download the image."
NO_AUDIO_TEXT == "Sorry, I couldn't download the audio."
NO_DOCUMENT_TEXT == "Sorry, I couldn't download the document."
\* message_processor.py:294, 315
NO_PDF_TEXT == "Sorry, I couldn't extract text from the PDF."
ONLY_PDF_TEXT == "I can only process PDF documents at the moment."
\* message_processor.py:229, 270, 324
ERR_IMAGE_TEXT == "Sorry, I encountered an error analyzing the image."
ERR_AUDIO_TEXT == "Sorry, I encountered an error processing the audio."
ERR_DOCUMENT_TEXT == "Sorry, I encountered an error processing the document."
\* message_processor.py:351-354
NOT_AUTHORIZED_TEXT == "Sorry, you are not authorized to use this bot. Please contact the administrator for access."
\* message_processor.py:359-362
ERROR_TEXT == "Sorry, I encountered an error processing your message. Please try again later."
\* what the AI collaborator answered: a generated reply, an image analysis,
\* and the audio reply f"I heard: '{transcription}'\n\n{response_text}"
AI_ANSWER == "<generated reply>"
AI_ANALYSIS == "<image analysis>"
\* what transcribe_audio returned, and the prompt of message_processor.py:297
TRANSCRIPTION == "<transcription>"
SUMMARIZE_PROMPT == "Summarize this document: <extracted text>"
HEARD_ANSWER == "I heard: '<transcription>' <generated reply>"
\* str(e) of an exception raised by the AI client
AI_ERROR == "<str(e)>"

ApologyTexts == {ERR_IMAGE_TEXT, ERR_AUDIO_TEXT, ERR_DOCUMENT_TEXT, ERROR_TEXT}

\* ------------------------------------------------------------ one request
\* a request that has not arrived yet
Idle ==
    [pc |-> "idle", provider |-> "", frm |-> "", sid |-> "", kind |-> "",
     body |-> "", mime |-> "", msg_id |-> 0, conv |-> 0, ctx |-> <<>>,
     dl |-> "none", chat |-> "", auth |-> "", status |-> "", name |-> "",
     fail |-> "",
     event |-> "",
     rl |-> "none", gate |-> "none", ret |-> "none", http |-> 0,
     ai |-> <<>>, sends |-> <<>>, caught |-> <<>>, marks |-> <<>>,
     created |-> 0, out_created |-> 0, deleted |-> 0, dup |-> FALSE,
     file |-> FALSE, at |-> 0]

\* the store and the locals of the running request, threaded through the
\* statements of one step; exc is the exception in flight
World(p) == [us |-> users, cs |-> conversations, ms |-> messages,
             p |-> p, exc |-> "none"]

\* the provider message id Twilio returns for the send made by request r
OutSid(r) == "SM" \o ToString(r)

\* the "status" member of the JSON body a handler answers with: webhook.py
\* 114 and 133, meta_webhook.py:115, waha_webhook.py:150-159; an
\* HTTPException carries a detail and no status
ResponseStatus(p, http) ==
    IF http # 200 THEN ""
    ELSE IF p.provider = "twilio" /\ p.rl = "denied" THEN "rate_limited"
    ELSE "ok"

\* the coroutine of a request has returned: its locals are gone, what is
\* kept is the history of what it did, with the kind a run dispatched on
Done(p, http) ==
    [p EXCEPT !.pc = "done", !.http = http, !.sid = "",
              !.status = ResponseStatus(p, http),
              !.kind = IF p.gate = "passed" THEN @ ELSE "",
              !.body = "", !.mime = "", !.msg_id = 0, !.conv = 0,
              !.ctx = <<>>, !.fail = ""]

\* twilio_service.py:18-69  TwilioService.send_message: never raises; ok
\* tells whether the Twilio client accepted the message (a sid is returned)
\* variant: the send is dropped without a trace
send_message_dropped(w, text, ok) == w

send_message(w, text, ok) ==
    [w EXCEPT !.p.sends = Append(@, [to |-> w.p.frm, text |-> text,
                                     via |-> "twilio", ok |-> ok])]

\* variant: only text events are recorded as incoming messages
create_message_text_only(w, r, dir, sid, content) ==
    IF SidTaken(w.ms, sid)
    THEN [w EXCEPT !.exc = "IntegrityError",
                   !.p.dup = (dir = "incoming")]
    ELSE LET id == NewId(w.ms)
             row == NewMessage(id, w.p.frm, w.p.conv, dir, sid, content, r)
         IN  IF dir = "incoming"
             THEN IF w.p.kind = "text"
                  THEN [w EXCEPT !.ms = @ \cup {row}, !.p.msg_id = id,
                                 !.p.created = @ + 1]
                  ELSE w
             ELSE [w EXCEPT !.ms = @ \cup {row}, !.p.out_created = @ + 1]

\* variant: an insert under a stored id overwrites the stored row
create_message_upsert(w, r, dir, sid, content) ==
    LET id == NewId(w.ms)
        row == NewMessage(id, w.p.frm, w.p.conv, dir, sid, content, r)
        ms1 == (w.ms \ get_message_by_sid(w.ms, sid)) \cup {row}
    IN  IF dir = "incoming"
        THEN [w EXCEPT !.ms = ms1, !.p.msg_id = id, !.p.created = @ + 1]
        ELSE [w EXCEPT !.ms = ms1, !.p.out_created = @ + 1]

\* crud.py:89-114 with database.py:71: insert, or IntegrityError
create_message(w, r, dir, sid, content) ==
    IF w.p.fail = dir
    THEN [w EXCEPT !.exc = "OperationalError"]
    ELSE IF SidTaken(w.ms, sid)
    THEN [w EXCEPT !.exc = "IntegrityError",
                   !.p.dup = (dir = "incoming")]
    ELSE LET id == NewId(w.ms)
             row == NewMessage(id, w.p.frm, w.p.conv, dir, sid, content, r)
         IN  IF dir = "incoming"
             THEN [w EXCEPT !.ms = @ \cup {row}, !.p.msg_id = id,
                            !.p.created = @ + 1]
             ELSE [w EXCEPT !.ms = @ \cup {row}, !.p.out_created = @ + 1]

\* the call MessageCRUD.mark_as_processed(db, message_id, ...) of a run
Mark(w, ai, err) ==
    [w EXCEPT !.ms = mark_as_processed(@, w.p.msg_id, ai, err),
              !.p.marks = Append(@, [ai |-> ai, err |-> err])]

\* media_service.py:132-144  MediaService.cleanup_file
cleanup_file(w) == [w EXCEPT !.p.file = FALSE]

\* variant: _send_response sends without recording the outgoing message
send_response_not_recorded(w, r, text, ok) == send_message(w, text, ok)

\* message_processor.py:326-347  _send_response
send_response(w, r, text, ok) ==
    LET w1 == send_message(w, text, ok)
    IN  IF ok THEN create_message(w1, r, "outgoing", OutSid(r), text)
        ELSE w1

\* variant: the except clause returns False without the error reply
OuterExceptSilent(w, ok) ==
    LET w2 == [w EXCEPT !.exc = "none", !.p.caught = Append(@, "outer"),
                        !.p.ret = "False"]
    IN  [w2 EXCEPT !.p = Done(@, 200)]

\* message_processor.py:128-131  the except clause of
\* process_incoming_message: generic error reply, return False
OuterExcept(w, ok) ==
    LET w1 == send_message(w, ERROR_TEXT, ok)
        w2 == [w1 EXCEPT !.exc = "none", !.p.caught = Append(@, "outer"),
                         !.p.ret = "False"]
    IN  [w2 EXCEPT !.p = Done(@, 200)]

\* message_processor.py:118-131  send the branch's response_text and
\* return True; an exception of _send_response goes to the except clause
Finish(w, r, text, ok1, ok2) ==
    LET w1 == send_response(w, r, text, ok1)
    IN  IF w1.exc # "none" THEN OuterExcept(w1, ok2)
        ELSE [w1 EXCEPT !.p = Done([@ EXCEPT !.ret = "True"], 200)]

\* the coroutine suspends in an AI call (asyncio.to_thread) or a download
Suspend(w, pc, call) ==
    [w EXCEPT !.p.pc = pc,
              !.p.ai = IF call = "" THEN @ ELSE Append(@, call)]

\* message_processor.py:133-162  _process_text_message up to the await of
\* generate_response
process_text_message(w, pc, message_text, conversation_id) ==
    [Suspend(w, pc, "generate_response")
       EXCEPT !.p.ctx = TextContext(w.ms, conversation_id, message_text)]

\* variant: a video is handled as an image
DispatchVideoAsImage(w, r, ok1, ok2) ==
    CASE w.p.kind = "text" ->
           process_text_message(w, "ai_text", w.p.body, w.p.conv)
      [] w.p.kind \in {"image", "video"} -> Suspend(w, "dl_image", "")
      [] w.p.kind = "audio" -> Suspend(w, "dl_audio", "")
      [] w.p.kind = "document" -> Suspend(w, "dl_document", "")
      [] OTHER -> Finish(w, r, UNSUPPORTED_TEXT, ok1, ok2)

\* message_processor.py:86-116  dispatch on message_type, up to the first
\* suspension point of the chosen branch
Dispatch(w, r, ok1, ok2) ==
    CASE w.p.kind = "text" ->
           process_text_message(w, "ai_text", w.p.body, w.p.conv)
      [] w.p.kind = "image" -> Suspend(w, "dl_image", "")
      [] w.p.kind = "audio" -> Suspend(w, "dl_audio", "")
      [] w.p.kind = "document" -> Suspend(w, "dl_document", "")
      [] OTHER -> Finish(w, r, UNSUPPORTED_TEXT, ok1, ok2)

\* message_processor.py:47-84  process_incoming_message from its first
\* statement to the creation of the incoming message record
process_incoming_message(w, r, t, ok1, ok2) ==
    LET us1 == get_or_create_user(w.us, w.p.frm, w.p.name,
                                  whitelisted_users)
        user == TheUser(us1, w.p.frm)
        w1 == [w EXCEPT !.us = us1]
    IN  IF ~user.is_whitelisted
        THEN [send_message(w1, NOT_AUTHORIZED_TEXT, ok1)
                EXCEPT !.p = Done([@ EXCEPT !.gate = "rejected",
                                            !.ret = "False"], 200)]
        ELSE LET cs1 == get_or_create_conversation(w1.cs, w.p.frm, t)
                 conv == TheConversation(cs1, w.p.frm)
                 w2 == [w1 EXCEPT !.cs = cs1, !.p.conv = conv.id,
                                  !.p.gate = "passed"]
                 w3 == create_message(w2, r, "incoming", w.p.sid, w.p.body)
             IN  IF w3.exc # "none" THEN OuterExcept(w3, ok2)
                 ELSE Dispatch(w3, r, ok1, ok2)

\* the step of request r ends: its effects on the store and its locals
Commit(r, w) ==
    /\ users' = w.us
    /\ conversations' = w.cs
    /\ messages' = w.ms
    /\ proc' = [proc EXCEPT ![r] = w.p]

\* the request is answered without touching the store
Answer(r, p) ==
    /\ proc' = [proc EXCEPT ![r] = p]
    /\ UNCHANGED dbvars

\* settings.app_env and settings.waha_api_key of the deployment: production,
\* with a gateway key configured, so that both checks are in force
AppEnv == "production"
WahaApiKeyConfigured == TRUE

\* what a request carries as X-Twilio-Signature (webhook.py:74),
\* X-Hub-Signature-256 (sent by Meta, read nowhere in meta_webhook.py) or
\* X-Api-Key (waha_webhook.py:124)
Credentials == {"valid", "invalid", "missing"}

\* the kinds each adapter can produce (webhook.py:36-51 never yields
\* location or contact)
KindsOf(prov) == IF prov = "twilio"
                 THEN MessageType \ {"location", "contact"}
                 ELSE MessageType

\* webhook.py:68 Body (default "") and meta_webhook.py:151-162: the text of
\* the r-th event is empty or a text of its own; media events are taken
\* without a caption
Bodies(kind, r) == IF kind = "text" THEN {"", "b" \o ToString(r)} ELSE {""}

\* MediaContentType0 of a Twilio document (webhook.py:47 takes
\* application/pdf and every type that contains "document"); on the Meta
\* endpoint media_content_type is the message type (meta_webhook.py:200)
PDF == "application/pdf"
DOCX == "application/vnd.openxmlformats-officedocument.wordprocessingml.document"
Mimes(prov, kind) ==
    IF kind # "document" THEN {""}
    ELSE IF prov = "twilio" THEN {PDF, DOCX} ELSE {"document"}

Arrival(prov, frm, sid, kind, body, mime, t) ==
    [Idle EXCEPT !.provider = prov, !.frm = frm, !.sid = sid, !.kind = kind,
                 !.body = body, !.mime = mime, !.at = t, !.event = "message"]

\* a request that carries no message a handler would process: only its
\* provider, credential and shape are of interest
Event(prov, shape, auth, t) ==
    [Idle EXCEPT !.provider = prov, !.event = shape, !.auth = auth, !.at = t]

\* webhook.py:66-68: FastAPI answers a form without a required field with
\* 422 before webhook_handler runs
Malformed(shape) == shape = "malformed"

\* variant: only events of another type are skipped, an echo is processed
SkippedNonMessageOnly(shape) == shape = "non_message"

\* waha_webhook.py:147-155: an event that is not a message, or a message
\* the bot itself sent (fromMe), is answered at once
Skipped(shape) == shape \in {"non_message", "from_me"}

\* meta_webhook.py:108-110: a change is processed when it carries messages
HasMessages(shape) == shape # "no_messages"

\* meta_webhook.py:130-140 and waha_webhook.py:185-195: a stored message
\* with the delivered id is deleted before anything else is decided
DeleteDuplicate(w) ==
    LET existing == get_message_by_sid(w.ms, w.p.sid)
    IN  [w EXCEPT !.ms = @ \ existing,
                  !.p.deleted = @ + Cardinality(existing)]

\* webhook.py:62-139  webhook_handler up to its first suspension point;
\* dt is the time since the previous request arrived
TwilioWebhook(frm, name, fail, sid, kind, body, mime, sig, shape, dt, ok1, ok2) ==
    /\ nreq < MaxReq
    /\ now + dt <= MaxTime
    /\ LET r == nreq + 1
           t == now + dt
           p0 == [Arrival("twilio", frm, sid, kind, body, mime, t)
                    EXCEPT !.auth = sig, !.name = name, !.fail = fail]
       IN  IF Malformed(shape)
           THEN /\ Answer(r, Done(Event("twilio", shape, sig, t), 422))
                /\ UNCHANGED <<requests, admitted>>
           ELSE IF sig = "invalid" /\ AppEnv = "production"
           THEN /\ Answer(r, Done(p0, 403))
                /\ UNCHANGED <<requests, admitted>>
           ELSE /\ RLStep("twilio", frm, t)
                /\ IF ~Allowed("twilio", frm, t).ok
                   THEN Answer(r, Done([p0 EXCEPT !.rl = "denied"], 200))
                   ELSE Commit(r, process_incoming_message(
                                   World([p0 EXCEPT !.rl = "allowed"]),
                                   r, t, ok1, ok2))
    /\ nreq' = nreq + 1
    /\ now' = now + dt
    /\ UNCHANGED <<max_requests, window_seconds, waha, unit,
                 whitelisted_users>>

\* meta_webhook.py:85-206  meta_webhook_handler with process_meta_message,
\* for a body that carries one message, up to the first suspension point
MetaWebhook(frm, name, fail, sid, kind, body, mime, sig, shape, dt, ok1, ok2) ==
    /\ nreq < MaxReq
    /\ now + dt <= MaxTime
    /\ LET r == nreq + 1
           t == now + dt
           p0 == [Arrival("meta", frm, sid, kind, body, mime, t)
                    EXCEPT !.auth = sig, !.event = shape, !.name = name,
                           !.fail = fail]
           w0 == DeleteDuplicate(World(p0))
       IN  IF Malformed(shape)
           THEN /\ Answer(r, Done(Event("meta", shape, sig, t), 500))
                /\ UNCHANGED <<requests, admitted>>
           ELSE IF ~HasMessages(shape)
           THEN /\ Answer(r, Done(Event("meta", shape, sig, t), 200))
                /\ UNCHANGED <<requests, admitted>>
           ELSE /\ RLStep("meta", frm, t)
                /\ IF ~Allowed("meta", frm, t).ok
                   THEN Commit(r, [w0 EXCEPT
                                     !.p = Done([@ EXCEPT !.rl = "denied"], 200)])
                   ELSE Commit(r, process_incoming_message(
                                   [w0 EXCEPT !.p.rl = "allowed"],
                                   r, t, ok1, ok2))
    /\ nreq' = nreq + 1
    /\ now' = now + dt
    /\ UNCHANGED <<max_requests, window_seconds, waha, unit,
                 whitelisted_users>>

\* payload "from" of a gateway event: the chat id, a number with the suffix
\* of a contact or an alias id
WahaFroms == {"1@c.us", "2@c.us", "1@lid", "2@lid"}

\* waha_webhook.py:176-183  "+" and what stands before the "@"
from_number_formatted(from_number) ==
    CASE from_number \in {"1@c.us", "1@lid"} -> "+1"
      [] from_number \in {"2@c.us", "2@lid"} -> "+2"

\* waha_webhook.py:120-255  waha_webhook_handler with process_waha_message
\* for a message event not sent by the bot itself.  The call at 243-252
\* passes waha_chat_id, which process_incoming_message
\* (message_processor.py:22-31) does not accept: TypeError, caught at 254.
\* main.py:89-91 includes the Twilio and Meta routers only; the handler is
\* modelled as served, as waha_webhook.py:120 declares it.
WahaWebhook(from_number, sid, kind, key, shape, dt) ==
    /\ nreq < MaxReq
    /\ now + dt <= MaxTime
    /\ LET r == nreq + 1
           t == now + dt
           frm == from_number_formatted(from_number)
           p0 == [Arrival("waha", frm, sid, kind, "", "", t)
                    EXCEPT !.auth = key, !.event = shape]
           w0 == DeleteDuplicate(World(p0))
       IN  IF WahaApiKeyConfigured /\ key # "valid"
           THEN /\ Answer(r, Done(IF shape = "message" THEN p0
                                  ELSE Event("waha", shape, key, t), 403))
                /\ UNCHANGED <<requests, admitted>>
           ELSE IF Malformed(shape)
           THEN /\ Answer(r, Done(Event("waha", shape, key, t), 500))
                /\ UNCHANGED <<requests, admitted>>
           ELSE IF Skipped(shape)
           THEN /\ Answer(r, Done(Event("waha", shape, key, t), 200))
                /\ UNCHANGED <<requests, admitted>>
           ELSE /\ RLStep("waha", frm, t)
                /\ IF ~Allowed("waha", frm, t).ok
                   THEN Commit(r, [w0 EXCEPT
                                     !.p = Done([@ EXCEPT !.rl = "denied"], 200)])
                   ELSE Commit(r, [w0 EXCEPT
                                     !.p = Done([@ EXCEPT
                                                   !.rl = "allowed",
                                                   !.chat = from_number,
                                                   !.ret = "TypeError",
                                                   !.caught = Append(@, "waha")],
                                                200)])
    /\ nreq' = nreq + 1
    /\ now' = now + dt
    /\ UNCHANGED <<max_requests, window_seconds, waha, unit,
                 whitelisted_users>>

\* media_service.py:37-78  download_media returns a path or None and never
\* raises.  meta_webhook.py:192 hands over "meta://<id>", a scheme httpx
\* cannot fetch: on that endpoint the download always fails.
Downloaded(w, got) == got /\ w.p.provider # "meta"

\* variant: every document is taken for a PDF
IsPdfAlways(w) == TRUE

\* message_processor.py:288  content_type == 'application/pdf'
IsPdf(w) == w.p.mime = PDF

\* message_processor.py:192-205, 237-246, 280-315: the branch resumes when
\* the download has ended
AfterDownload(w, r, got, hasText, ok1, ok2) ==
    LET w1 == [w EXCEPT !.p.file = Downloaded(w, got),
                        !.p.dl = IF Downloaded(w, got) THEN "ok"
                                 ELSE "failed"]
    IN  CASE w.p.pc = "dl_image" ->
               IF ~w1.p.file THEN Finish(w1, r, NO_IMAGE_TEXT, ok1, ok2)
               ELSE Suspend(w1, "ai_image", "analyze_image")
          [] w.p.pc = "dl_audio" ->
               IF ~w1.p.file THEN Finish(w1, r, NO_AUDIO_TEXT, ok1, ok2)
               ELSE Suspend(w1, "ai_transcribe", "transcribe_audio")
          [] w.p.pc = "dl_document" ->
               IF ~w1.p.file THEN Finish(w1, r, NO_DOCUMENT_TEXT, ok1, ok2)
               ELSE IF IsPdf(w)
               THEN IF ~hasText
                    THEN Finish(cleanup_file(w1), r, NO_PDF_TEXT, ok1, ok2)
                    ELSE [Suspend(cleanup_file(w1), "ai_document",
                                  "generate_response")
                            EXCEPT !.p.ctx = generate_response_messages(
                                                 SUMMARIZE_PROMPT, <<>>)]
               ELSE Finish(cleanup_file(w1), r, ONLY_PDF_TEXT, ok1, ok2)

\* variant: the except clause of the Text branch re-raises without
\* recording the error
TextAfterAINoMark(w, aiOk) ==
    IF aiOk THEN Mark(w, AI_ANSWER, "")
    ELSE [w EXCEPT !.exc = "AIError", !.p.caught = Append(@, "text")]

\* message_processor.py:164-183  _process_text_message after the AI call:
\* on failure the message is marked and the exception re-raised
TextAfterAI(w, aiOk) ==
    IF aiOk THEN Mark(w, AI_ANSWER, "")
    ELSE [Mark(w, "", AI_ERROR) EXCEPT !.exc = "AIError",
                                       !.p.caught = Append(@, "text")]

\* a row of the run's message id is stored
RowExists(w) == \E m \in w.ms : m.id = w.p.msg_id

\* variant: the transcription is not written to the message
AfterTranscriptionNotStored(w) ==
    LET w1 == cleanup_file(w)
        row == CHOOSE m \in w1.ms : m.id = w.p.msg_id
    IN  process_text_message(w1, "ai_audio_text", TRANSCRIPTION,
                             row.conversation_id)

\* message_processor.py:251-262  _process_audio_message once
\* transcribe_audio has returned: delete the file, write the transcription
\* to the message, run the Text path on it
AfterTranscription(w) ==
    LET w1 == [cleanup_file(w) EXCEPT
                 !.ms = update_content(@, w.p.msg_id, TRANSCRIPTION)]
        row == CHOOSE m \in w1.ms : m.id = w.p.msg_id
    IN  process_text_message(w1, "ai_audio_text", TRANSCRIPTION,
                             row.conversation_id)

\* the branch resumes when the AI call has ended
AfterAI(w, r, aiOk, ok1, ok2) ==
    CASE w.p.pc = "ai_text" ->
           \* message_processor.py:88-92 with 164-183
           LET w1 == TextAfterAI(w, aiOk)
           IN  IF w1.exc # "none" THEN OuterExcept(w1, ok2)
               ELSE Finish(w1, r, AI_ANSWER, ok1, ok2)
      [] w.p.pc = "ai_image" ->
           \* message_processor.py:207-229
           IF aiOk
           THEN Finish(Mark(cleanup_file(w), AI_ANALYSIS, ""), r,
                       AI_ANALYSIS, ok1, ok2)
           ELSE Finish([Mark(w, "", AI_ERROR)
                          EXCEPT !.p.caught = Append(@, "image")],
                       r, ERR_IMAGE_TEXT, ok1, ok2)
      [] w.p.pc = "ai_transcribe" ->
           \* message_processor.py:248-270; at 257 update_message returns
           \* None for a deleted row and .conversation_id raises
           IF aiOk /\ RowExists(w)
           THEN AfterTranscription(w)
           ELSE Finish([Mark(IF aiOk THEN cleanup_file(w) ELSE w, "", AI_ERROR)
                          EXCEPT !.p.caught = Append(@, "audio")],
                       r, ERR_AUDIO_TEXT, ok1, ok2)
      [] w.p.pc = "ai_audio_text" ->
           \* message_processor.py:255-270 around 164-183
           LET w1 == TextAfterAI(w, aiOk)
           IN  IF w1.exc # "none"
               THEN Finish([Mark(w1, "", AI_ERROR)
                              EXCEPT !.exc = "none",
                                     !.p.caught = Append(@, "audio")],
                           r, ERR_AUDIO_TEXT, ok1, ok2)
               ELSE Finish(w1, r, HEARD_ANSWER, ok1, ok2)
      [] w.p.pc = "ai_document" ->
           \* message_processor.py:303-324
           IF aiOk THEN Finish(Mark(w, AI_ANSWER, ""), r, AI_ANSWER, ok1, ok2)
           ELSE Finish([Mark(w, "", AI_ERROR)
                          EXCEPT !.p.caught = Append(@, "document")],
                       r, ERR_DOCUMENT_TEXT, ok1, ok2)

DownloadPcs == {"dl_image", "dl_audio", "dl_document"}
AIPcs == {"ai_text", "ai_image", "ai_transcribe", "ai_audio_text", "ai_document"}

\* the download of request r ends and its coroutine runs to the next
\* suspension point
DownloadDone(r, got, hasText, ok1, ok2) ==
    /\ proc[r].pc \in DownloadPcs
    /\ Commit(r, AfterDownload(World(proc[r]), r, got, hasText, ok1, ok2))
    /\ UNCHANGED <<rlvars, nreq, waha, unit,
                 whitelisted_users>>

\* the AI call of request r ends and its coroutine runs on
AIDone(r, aiOk, ok1, ok2) ==
    /\ proc[r].pc \in AIPcs
    /\ Commit(r, AfterAI(World(proc[r]), r, aiOk, ok1, ok2))
    /\ UNCHANGED <<rlvars, nreq, waha, unit,
                 whitelisted_users>>

\* -------------------------------------------------------- specifications
\* no call of WAHAService.send_message has been made
WahaIdle ==
    [pc |-> "idle", caller |-> "", to |-> "", waha_chat_id |-> "",
     chat_id |-> "", len |-> 0, conv |-> 0, u |-> 0, typing_delay |-> 0,
     steps |-> <<>>, failed |-> {}, ret |-> "none", http |-> 0]

\* no function has been called on its own yet
NoCall == [fn |-> "", prov |-> "", arg |-> <<>>, out |-> <<>>]

NoLists == [l \in Providers |-> [id \in Senders |-> <<>>]]

\* the three module-level RateLimiter instances (webhook.py:21-24,
\* meta_webhook.py:25-28, waha_webhook.py:25-28), an empty store
Init ==
    /\ now = 0
    /\ max_requests = [l \in Providers |-> RateLimitMessages]
    /\ window_seconds = [l \in Providers |-> RateLimitWindowSeconds]
    /\ requests = NoLists
    /\ admitted = NoLists
    /\ users = {}
    /\ conversations = {}
    /\ messages = {}
    /\ nreq = 0
    /\ proc = [r \in Reqs |-> Idle]
    /\ waha = WahaIdle
    /\ unit = NoCall
    /\ whitelisted_users = WhitelistedNumbers

Elapsed == 0..1

Next ==
    \/ \E frm \in Senders, sid \in Sids, kind \in KindsOf("twilio"),
          sig \in {"valid", "invalid"}, dt \in Elapsed,
          ok1, ok2 \in BOOLEAN :
          \E body \in Bodies(kind, nreq + 1), mime \in Mimes("twilio", kind) :
             TwilioWebhook(frm, "", "", sid, kind, body, mime, sig, "message", dt,
                           ok1, ok2)
    \/ \E frm \in Senders, sid \in Sids, kind \in KindsOf("meta"),
          dt \in Elapsed, ok1, ok2 \in BOOLEAN :
          \E body \in Bodies(kind, nreq + 1), mime \in Mimes("meta", kind) :
             MetaWebhook(frm, "", "", sid, kind, body, mime, "valid", "message", dt,
                         ok1, ok2)
    \/ \E from_number \in WahaFroms, sid \in Sids, kind \in KindsOf("waha"),
          key \in {"valid", "invalid"}, dt \in Elapsed :
          WahaWebhook(from_number, sid, kind, key, "message", dt)
    \/ \E r \in Reqs, got, hasText, ok1, ok2 \in BOOLEAN :
          DownloadDone(r, got, hasText, ok1, ok2)
    \/ \E r \in Reqs, aiOk, ok1, ok2 \in BOOLEAN :
          AIDone(r, aiOk, ok1, ok2)

Spec == Init /\ [][Next]_vars

\* ------------------------------------------- the handlers at the boundary
\* what a POST can look like to a handler: a user's message, an event the
\* handler skips, a body that cannot be parsed
Shapes(prov) ==
    CASE prov = "twilio" -> {"message", "malformed"}
      [] prov = "meta" -> {"message", "no_messages", "malformed"}
      [] prov = "waha" -> {"message", "non_message", "from_me", "malformed"}

\* the kinds sent in this specification: one that waits for the AI
\* collaborator and one that is answered at once
BoundaryKinds == {"text", "unknown"}

NextHandlers ==
    \/ \E frm \in Senders, sid \in Sids, kind \in BoundaryKinds,
          sig \in Credentials, shape \in Shapes("twilio"), dt \in Elapsed,
          ok1, ok2 \in BOOLEAN :
          TwilioWebhook(frm, "", "", sid, kind, "", "", sig, shape, dt, ok1, ok2)
    \/ \E frm \in Senders, sid \in Sids, kind \in BoundaryKinds,
          sig \in Credentials, shape \in Shapes("meta"), dt \in Elapsed,
          ok1, ok2 \in BOOLEAN :
          MetaWebhook(frm, "", "", sid, kind, "", "", sig, shape, dt, ok1, ok2)
    \/ \E from_number \in WahaFroms, sid \in Sids, kind \in BoundaryKinds,
          key \in Credentials, shape \in Shapes("waha"), dt \in Elapsed :
          WahaWebhook(from_number, sid, kind, key, shape, dt)
    \/ \E r \in Reqs, aiOk, ok1, ok2 \in BOOLEAN :
          AIDone(r, aiOk, ok1, ok2)

SpecHandlers == Init /\ [][NextHandlers]_vars

\* ------------------------------------------- the RateLimiter on its own
\* the instance under test
RL == "twilio"

\* rate_limiter.py:9-19  RateLimiter(max_requests, window_seconds)
InitRL ==
    /\ now = 0
    /\ \E n \in 1..MaxN, w \in 1..MaxW :
          /\ max_requests = [l \in Providers |-> n]
          /\ window_seconds = [l \in Providers |-> w]
    /\ requests = NoLists
    /\ admitted = NoLists
    /\ users = {}
    /\ conversations = {}
    /\ messages = {}
    /\ nreq = 0
    /\ proc = [r \in Reqs |-> Idle]
    /\ waha = WahaIdle
    /\ unit = NoCall
    /\ whitelisted_users = WhitelistedNumbers

\* history of the calls: per identifier, the number of calls denied since
\* its last admitted call, counted up to MaxDenied
DeniedSoFar ==
    IF unit.fn = "is_allowed" THEN unit.out[2] ELSE [id \in Senders |-> 0]

Min(a, b) == IF a < b THEN a ELSE b

DeniedAfter(id, ok) ==
    [DeniedSoFar EXCEPT ![id] = IF ok THEN 0 ELSE Min(@ + 1, MaxDenied)]

\* rate_limiter.py:21-46  one call of is_allowed, dt seconds after the last
IsAllowedCall(id, dt) ==
    /\ now + dt <= MaxTime
    /\ RLStep(RL, id, now + dt)
    /\ now' = now + dt
    /\ unit' = [fn |-> "is_allowed", prov |-> "", arg |-> <<id, now + dt>>,
                out |-> <<Allowed(RL, id, now + dt).ok,
                          DeniedAfter(id, Allowed(RL, id, now + dt).ok),
                          DeniedSoFar[id]>>]
    /\ UNCHANGED <<max_requests, window_seconds, dbvars, nreq, proc, waha,
                   whitelisted_users>>

NextRL == \E id \in Senders, dt \in 0..MaxTime : IsAllowedCall(id, dt)

SpecRL == InitRL /\ [][NextRL]_vars

\* ------------------------------- WAHAService.send_message, initiation
\* lengths of the messages sent, and the values random.uniform(0.05, 0.1)
\* returns, in thousandths of a second per character
Lengths == {0, 4, 40, 60, 100}
Multipliers == {50, 64, 75, 100}
\* max(1.0, min(5.0, ...)) of waha_service.py:209, in thousandths
MinDelay == 1000
MaxDelay == 5000
\* initiate.py:55-67  GREETING_MESSAGE and its length
GREETING_MESSAGE == "<greeting>"
GreetingLength == 541
\* chat identities a caller may pass as waha_chat_id ("" for none)
WahaChatIds == {"", "1@c.us", "120363@g.us", "77@lid"}

\* waha_service.py:32-44  _get_chat_id: the number without "+", "@c.us"
get_chat_id(phone_number) ==
    CASE phone_number = "+1" -> "1@c.us"
      [] phone_number = "+2" -> "2@c.us"

\* variant: the delay is not clamped
typing_delay_unclamped(message_length, u) == message_length * u

\* waha_service.py:207-209  typing_delay for a multiplier u
typing_delay(message_length, u) ==
    LET base_delay == message_length * u
        capped == IF base_delay < MaxDelay THEN base_delay ELSE MaxDelay
    IN  IF capped > MinDelay THEN capped ELSE MinDelay

\* the steps of send_message in the order of waha_service.py:198-263
WahaSteps == <<"send_seen", "start_typing", "sleep", "stop_typing", "deliver">>

\* variant: a step that failed ends the call
NextStepUnlessFailed(pc, ok) ==
    IF ~ok THEN "done"
    ELSE CASE pc = "send_seen" -> "start_typing"
           [] pc = "start_typing" -> "sleep"
           [] pc = "sleep" -> "stop_typing"
           [] pc = "stop_typing" -> "deliver"

\* waha_service.py:198-222  what send_message does after a step: send_seen,
\* start_typing and stop_typing return False on failure (46-164) and the
\* result is not looked at
NextStep(pc, ok) ==
    CASE pc = "send_seen" -> "start_typing"
      [] pc = "start_typing" -> "sleep"
      [] pc = "sleep" -> "stop_typing"
      [] pc = "stop_typing" -> "deliver"

\* waha_service.py:194-199  send_message up to the await of send_seen
StartSend(caller, to, waha_chat_id, len, conv) ==
    [WahaIdle EXCEPT !.pc = "send_seen", !.caller = caller, !.to = to,
                     !.waha_chat_id = waha_chat_id,
                     !.chat_id = IF waha_chat_id # "" THEN waha_chat_id
                                 ELSE get_chat_id(to),
                     !.len = len, !.conv = conv, !.steps = <<"send_seen">>]

\* a step of send_message has ended with outcome ok
Advance(wh, ok) ==
    LET nxt == NextStep(wh.pc, ok)
    IN  [wh EXCEPT !.pc = nxt,
                   !.steps = IF nxt = "done" THEN @ ELSE Append(@, nxt),
                   !.failed = IF ok THEN @ ELSE @ \cup {wh.pc}]

\* waha_service.py:166-288  a call of waha_service.send_message
SendMessage(to, waha_chat_id, len) ==
    /\ waha.pc \in {"idle", "done"}
    /\ waha' = StartSend("service", to, waha_chat_id, len, 0)
    /\ UNCHANGED <<rlvars, dbvars, nreq, proc, unit,
                 whitelisted_users>>

\* initiate.py:69-133  initiate_conversation up to the await of the send
InitiateConversation(phone_number, key) ==
    /\ waha.pc \in {"idle", "done"}
    /\ nreq < MaxReq
    /\ nreq' = nreq + 1
    /\ IF key # "valid"
       THEN /\ waha' = [WahaIdle EXCEPT !.pc = "done", !.caller = "initiate",
                                        !.to = phone_number, !.http = 403]
            /\ UNCHANGED dbvars
       ELSE LET us1 == get_or_create_user(users, phone_number, "",
                                          whitelisted_users)
                cs1 == get_or_create_conversation(conversations,
                                                  phone_number, now)
            IN  /\ users' = us1
                /\ conversations' = cs1
                /\ messages' = messages
                /\ waha' = StartSend("initiate", phone_number, "",
                                     GreetingLength,
                                     TheConversation(cs1, phone_number).id)
    /\ UNCHANGED <<rlvars, proc, unit,
                 whitelisted_users>>

\* waha_service.py:199  send_seen has returned
SeenDone(ok) ==
    /\ waha.pc = "send_seen"
    /\ waha' = Advance(waha, ok)
    /\ UNCHANGED <<rlvars, dbvars, nreq, proc, unit,
                 whitelisted_users>>

\* waha_service.py:202-219  start_typing has returned; the delay is drawn
StartTypingDone(ok, u) ==
    /\ waha.pc = "start_typing"
    /\ waha' = [Advance(waha, ok) EXCEPT
                  !.u = u, !.typing_delay = typing_delay(waha.len, u)]
    /\ UNCHANGED <<rlvars, dbvars, nreq, proc, unit,
                 whitelisted_users>>

\* waha_service.py:219-222  asyncio.sleep(typing_delay) has ended
SleepDone ==
    /\ waha.pc = "sleep"
    /\ waha' = Advance(waha, TRUE)
    /\ UNCHANGED <<rlvars, dbvars, nreq, proc, unit,
                 whitelisted_users>>

\* waha_service.py:222-263  stop_typing has returned; the message is posted
StopTypingDone(ok) ==
    /\ waha.pc = "stop_typing"
    /\ waha' = Advance(waha, ok)
    /\ UNCHANGED <<rlvars, dbvars, nreq, proc, unit,
                 whitelisted_users>>

\* waha_service.py:263-288 with initiate.py:135-174: the post has ended
\* with a message id, an error status or an exception
DeliverDone(out) ==
    /\ waha.pc = "deliver"
    /\ LET message_id == IF out = "id" THEN "WA" \o ToString(nreq) ELSE "None"
           stored == waha.caller = "initiate" /\ out = "id"
                        /\ ~SidTaken(messages, message_id)
       IN  /\ waha' = [waha EXCEPT
                         !.pc = "done", !.ret = message_id,
                         !.failed = IF out = "id" THEN @
                                    ELSE @ \cup {"deliver"},
                         !.http = IF waha.caller # "initiate" THEN 0
                                  ELSE IF stored THEN 200 ELSE 500]
           /\ messages' =
                 IF stored
                 THEN messages \cup
                        {NewMessage(NewId(messages), waha.to, waha.conv,
                                    "outgoing", message_id, GREETING_MESSAGE,
                                    0)}
                 ELSE messages
    /\ UNCHANGED <<rlvars, users, conversations, nreq, proc, unit,
                 whitelisted_users>>

NextWaha ==
    \/ \E to \in Senders, chat \in WahaChatIds, len \in Lengths :
          SendMessage(to, chat, len)
    \/ \E phone \in Senders, key \in {"valid", "invalid"} :
          InitiateConversation(phone, key)
    \/ \E ok \in BOOLEAN : SeenDone(ok)
    \/ \E ok \in BOOLEAN, u \in Multipliers : StartTypingDone(ok, u)
    \/ SleepDone
    \/ \E ok \in BOOLEAN : StopTypingDone(ok)
    \/ \E out \in {"id", "status", "exception"} : DeliverDone(out)

SpecWaha == Init /\ [][NextWaha]_vars

\* Inbound events of the two mounted endpoints interleaved with
\* conversation-initiation calls: the handlers and the initiation endpoint
\* are coroutines of one event loop, the pipeline and the WAHA send
\* suspend at their awaits.
NextConversations ==
    \/ \E frm \in Senders, sid \in Sids, kind \in BoundaryKinds,
          dt \in Elapsed, ok1, ok2 \in BOOLEAN :
          \E body \in Bodies(kind, nreq + 1) :
             TwilioWebhook(frm, "", "", sid, kind, body, "", "valid", "message", dt,
                           ok1, ok2)
    \/ \E frm \in Senders, sid \in Sids, kind \in BoundaryKinds,
          dt \in Elapsed, ok1, ok2 \in BOOLEAN :
          \E body \in Bodies(kind, nreq + 1) :
             MetaWebhook(frm, "", "", sid, kind, body, "", "valid", "message", dt,
                         ok1, ok2)
    \/ \E r \in Reqs, aiOk, ok1, ok2 \in BOOLEAN :
          AIDone(r, aiOk, ok1, ok2)
    \/ \E phone \in Senders, key \in {"valid", "invalid"} :
          InitiateConversation(phone, key)
    \/ \E ok \in BOOLEAN : SeenDone(ok)
    \/ \E ok \in BOOLEAN, u \in Multipliers : StartTypingDone(ok, u)
    \/ SleepDone
    \/ \E ok \in BOOLEAN : StopTypingDone(ok)
    \/ \E out \in {"id", "status", "exception"} : DeliverDone(out)

SpecConversations == Init /\ [][NextConversations]_vars

\* ------------------------------------------------------------------ users
\* display names an inbound event may carry: ProfileName (webhook.py:73),
\* contacts[0].profile.name (meta_webhook.py:167); "" stands for None
Names == {"", "Ann", "Bob"}
\* values of WHITELISTED_USERS a deployment may be started with
AllowLists == SUBSET Senders

\* settings.py:97  "settings = Settings()" runs once per process: the
\* allow-list changes only when the process is restarted with another
\* WHITELISTED_USERS.  The restart is graceful (no request in flight); the
\* database is kept, the in-memory limiters (rate_limiter.py:19) start
\* empty.
Restart(wl) ==
    /\ wl # whitelisted_users
    /\ \A r \in Reqs : proc[r].pc \in {"idle", "done"}
    /\ waha.pc \in {"idle", "done"}
    /\ whitelisted_users' = wl
    /\ requests' = NoLists
    /\ admitted' = NoLists
    /\ UNCHANGED <<now, max_requests, window_seconds, dbvars, nreq, proc,
                   waha, unit>>

\* Text events of the two mounted endpoints with display names, initiation
\* calls and restarts with another allow-list.
NextUsers ==
    \/ \E frm \in Senders, name \in Names, sid \in Sids, dt \in Elapsed,
          ok1 \in BOOLEAN :
          TwilioWebhook(frm, name, "", sid, "text", "", "", "valid", "message",
                        dt, ok1, TRUE)
    \/ \E frm \in Senders, name \in Names, sid \in Sids, dt \in Elapsed,
          ok1 \in BOOLEAN :
          MetaWebhook(frm, name, "", sid, "text", "", "", "valid", "message",
                      dt, ok1, TRUE)
    \/ \E r \in Reqs, aiOk \in BOOLEAN : AIDone(r, aiOk, TRUE, TRUE)
    \/ \E phone \in Senders, key \in {"valid", "invalid"} :
          InitiateConversation(phone, key)
    \/ SeenDone(TRUE)
    \/ StartTypingDone(TRUE, 100)
    \/ SleepDone
    \/ StopTypingDone(TRUE)
    \/ \E out \in {"id", "status"} : DeliverDone(out)
    \/ \E wl \in AllowLists : Restart(wl)

SpecUsers == Init /\ [][NextUsers]_vars

\* --------------------------------------------------------------- failures
\* the insert of a run the database refuses at commit (crud.py:109
\* db.commit() raising OperationalError); "" when it refuses none
Failures == {"", "incoming", "outgoing"}
\* kinds with no AI call, one AI call, and a download before the AI call
FailureKinds == {"unknown", "text", "image"}

\* Events of the two mounted endpoints under every failure of an insert,
\* of the download, of the AI call and of the sends.
NextFailures ==
    \/ \E frm \in Senders, fail \in Failures, sid \in Sids,
          kind \in FailureKinds, sig \in {"valid", "invalid"},
          dt \in Elapsed, ok1, ok2 \in BOOLEAN :
          \E mime \in Mimes("twilio", kind) :
             TwilioWebhook(frm, "", fail, sid, kind, "", mime, sig, "message",
                           dt, ok1, ok2)
    \/ \E frm \in Senders, fail \in Failures, sid \in Sids,
          kind \in FailureKinds, dt \in Elapsed, ok1, ok2 \in BOOLEAN :
          \E mime \in Mimes("meta", kind) :
             MetaWebhook(frm, "", fail, sid, kind, "", mime, "valid",
                         "message", dt, ok1, ok2)
    \/ \E r \in Reqs, got, hasText, ok1, ok2 \in BOOLEAN :
          DownloadDone(r, got, hasText, ok1, ok2)
    \/ \E r \in Reqs, aiOk, ok1, ok2 \in BOOLEAN :
          AIDone(r, aiOk, ok1, ok2)

SpecFailures == Init /\ [][NextFailures]_vars

\* ------------------------------------------- functions on their own
\* everything but the call under test
others == <<now, max_requests, window_seconds, requests, admitted,
            users, conversations, messages, nreq, proc, waha,
            whitelisted_users>>

\* a string is the sequence of its parts: the prefix "whatsapp:", the sign
\* "+", a digit, a chat-id suffix
Digits == {"9", "0", "5"}
Suffixes == {"@c.us", "@lid"}
Numbers == {<<"9", "0">>, <<"9", "0", "5">>}
RawNumbers == Numbers \cup {<<"+">> \o n : n \in Numbers}

\* the sender as each provider's request can carry it: Form field From,
\* message["from"], payload["from"]
RawSenders(prov) ==
    CASE prov = "twilio" ->
            RawNumbers \cup {<<"whatsapp:">> \o n : n \in RawNumbers}
      [] prov = "meta" -> RawNumbers
      [] prov = "waha" ->
            RawNumbers \cup {n \o <<x>> : n \in RawNumbers, x \in Suffixes}

\* str.startswith and str.replace(old, '') on the parts
startswith(q, part) == q # <<>> /\ q[1] = part
Remove(q, part) == SelectSeq(q, LAMBDA x : x # part)

\* twilio_helpers.py:46-58  extract_phone_number
extract_phone_number(whatsapp_id) ==
    IF startswith(whatsapp_id, "whatsapp:")
    THEN Remove(whatsapp_id, "whatsapp:")
    ELSE whatsapp_id

\* str.split("@")[0]: what stands before the first "@"
RECURSIVE BeforeAt(_)
BeforeAt(q) ==
    IF q = <<>> \/ Head(q) \in Suffixes THEN <<>>
    ELSE <<Head(q)>> \o BeforeAt(Tail(q))

\* waha_webhook.py:176-180  phone_only
phone_only(from_number) ==
    IF \E i \in DOMAIN from_number : from_number[i] \in Suffixes
    THEN BeforeAt(from_number)
    ELSE from_number

\* meta_webhook.py:143 and waha_webhook.py:183  f"+{...}"
Plus(number) == <<"+">> \o number

\* the sender each handler hands to rate_limiter.is_allowed and to
\* process_incoming_message: webhook.py:102, meta_webhook.py:143,
\* waha_webhook.py:176-183
sender_of(prov, raw) ==
    CASE prov = "twilio" -> extract_phone_number(raw)
      [] prov = "meta" -> Plus(raw)
      [] prov = "waha" -> Plus(phone_only(raw))

\* a handler computes the sender of a request
NormalizeSender(prov, raw) ==
    /\ unit' = [fn |-> "sender", prov |-> prov, arg |-> raw,
                out |-> sender_of(prov, raw)]
    /\ UNCHANGED others

\* the explicit type a payload can carry ("" when it carries none) and
\* the declared MIME type of its media ("" when none is declared)
MSWORD == "application/msword"
TypeFields == {"", "chat", "text", "image", "audio", "voice", "ptt", "video",
               "document", "location", "vcard", "contacts", "sticker",
               "IMAGE"}
MimeTypes == {"", "image/jpeg", "audio/ogg", "video/mp4", PDF, MSWORD, DOCX,
              "application/zip", "IMAGE/PNG"}

\* str.lower() on the values above
lower(x) == CASE x = "IMAGE" -> "image"
              [] x = "IMAGE/PNG" -> "image/png"
              [] OTHER -> x

\* which of the prefixes tested with str.startswith a MIME type has
PrefixOf(mime) ==
    CASE mime \in {"image/jpeg", "image/png"} -> "image/"
      [] mime = "audio/ogg" -> "audio/"
      [] mime = "video/mp4" -> "video/"
      [] OTHER -> ""

\* 'document' in media_content_type, on the values above
ContainsDocument(mime) == mime = DOCX

\* webhook.py:36-51  detect_message_type
detect_message_type(num_media, media_content_type) ==
    IF num_media = 0 THEN "text"
    ELSE IF media_content_type # "" /\ PrefixOf(media_content_type) = "image/"
    THEN "image"
    ELSE IF media_content_type # "" /\ PrefixOf(media_content_type) = "audio/"
    THEN "audio"
    ELSE IF media_content_type # "" /\ PrefixOf(media_content_type) = "video/"
    THEN "video"
    ELSE IF media_content_type # ""
            /\ (media_content_type = PDF
                \/ ContainsDocument(media_content_type))
    THEN "document"
    ELSE "unknown"

\* meta_webhook.py:40-55  detect_message_type_meta: a message without a
\* type is taken for text
detect_message_type_meta(type) ==
    LET msg_type == IF type = "" THEN "text" ELSE type
    IN  CASE msg_type = "text" -> "text"
          [] msg_type = "image" -> "image"
          [] msg_type \in {"audio", "voice"} -> "audio"
          [] msg_type = "video" -> "video"
          [] msg_type = "document" -> "document"
          [] msg_type = "location" -> "location"
          [] msg_type = "contacts" -> "contact"
          [] OTHER -> "unknown"

\* waha_webhook.py:78-117  detect_message_type_waha
detect_message_type_waha(type, data_type, mime, hasMedia) ==
    LET t1 == IF type # "" THEN type ELSE data_type
        mimetype == lower(mime)
        t2 == IF t1 # "" THEN t1
              ELSE IF PrefixOf(mimetype) = "image/" THEN "image"
              ELSE IF PrefixOf(mimetype) = "audio/" THEN "audio"
              ELSE IF PrefixOf(mimetype) = "video/" THEN "video"
              ELSE IF mimetype \in {PDF, MSWORD, DOCX} THEN "document"
              ELSE IF mimetype # "" THEN "document"
              ELSE ""
        t3 == IF t2 = "" /\ hasMedia THEN "image" ELSE t2
        msg_type == lower(IF t3 = "" THEN "chat" ELSE t3)
    IN  CASE msg_type \in {"chat", "text"} -> "text"
          [] msg_type = "image" -> "image"
          [] msg_type \in {"audio", "voice", "ptt"} -> "audio"
          [] msg_type = "video" -> "video"
          [] msg_type = "document" -> "document"
          [] msg_type = "location" -> "location"
          [] msg_type = "vcard" -> "contact"
          [] OTHER -> "unknown"

\* the fields an adapter looks at: Twilio has no type field and takes
\* NumMedia for the attachment flag, Meta looks at the type only
kind_of(prov, a) ==
    CASE prov = "twilio" ->
            detect_message_type(IF a.hasMedia THEN 1 ELSE 0, a.mime)
      [] prov = "meta" -> detect_message_type_meta(a.type)
      [] prov = "waha" ->
            detect_message_type_waha(a.type, a.data_type, a.mime, a.hasMedia)

KindInputs(prov) ==
    CASE prov = "twilio" ->
            [type : {""}, data_type : {""}, mime : MimeTypes,
             hasMedia : BOOLEAN]
      [] prov = "meta" ->
            [type : TypeFields, data_type : {""}, mime : {""},
             hasMedia : {FALSE}]
      [] prov = "waha" ->
            [type : TypeFields, data_type : {"", "video"}, mime : MimeTypes,
             hasMedia : BOOLEAN]

\* an adapter derives the kind of an event
DetectKind(prov, a) ==
    /\ unit' = [fn |-> "kind", prov |-> prov, arg |-> a,
                out |-> kind_of(prov, a)]
    /\ UNCHANGED others

\* the token-limit parameters of the two APIs
ChatTokenFields == {"max_tokens", "max_completion_tokens"}
TokenFields == ChatTokenFields \cup {"max_output_tokens"}

\* how one call of the OpenAI client ends: with a response, or with an
\* exception of a type, about a parameter it rejects (rejected, "" when it
\* is about something else), whose message names the parameters in mentions
OK == [type |-> "ok", rejected |-> "", mentions |-> {}]
\* a TypeError of the SDK names the keyword it does not take; the message
\* of the API's BadRequestError may also name the parameter to use instead
Alternatives(ty, f) ==
    IF ty = "BadRequestError" /\ f \in ChatTokenFields
    THEN ChatTokenFields \ {f} ELSE {}
Rejections(params) ==
    UNION {{[type |-> ty, rejected |-> f, mentions |-> {f} \cup more] :
              more \in SUBSET Alternatives(ty, f)} :
           ty \in {"BadRequestError", "TypeError"}, f \in params}
OtherErrors ==
    {[type |-> ty, rejected |-> "", mentions |-> {}] :
        ty \in {"BadRequestError", "APIConnectionError"}}
Outcomes(params) == {OK} \cup Rejections(params) \cup OtherErrors

\* openai_service.py:238-250 and 269-275: whether the except clause calls
\* again, and with which parameters
Raise == [again |-> FALSE, params |-> {}]
Again(params) == [again |-> TRUE, params |-> params]
Retry(api, params, e) ==
    IF e.type \notin {"TypeError", "BadRequestError"} THEN Raise
    ELSE IF api = "chat"
    THEN IF "max_completion_tokens" \in e.mentions
         THEN Again((params \ {"max_completion_tokens"}) \cup {"max_tokens"})
         ELSE IF "max_tokens" \in e.mentions
         THEN Again((params \ {"max_tokens"})
                       \cup {"max_completion_tokens"})
         ELSE Raise
    ELSE IF "max_output_tokens" \in e.mentions
         THEN Again(params \ {"max_output_tokens"})
         ELSE Raise

\* openai_service.py:218-275  _call_chat_api and _call_responses_api: the
\* parameter sets sent, in order, and how the call ends
call_api(api, params, e1, e2) ==
    IF e1 = OK THEN [attempts |-> <<params>>, result |-> "response"]
    ELSE LET retry == Retry(api, params, e1)
         IN  IF ~retry.again
             THEN [attempts |-> <<params>>, result |-> "raised"]
             ELSE [attempts |-> <<params, retry.params>>,
                   result |-> IF e2 = OK THEN "response" ELSE "raised"]

\* openai_service.py:224-234 and 258-262: the token-limit parameter of the
\* first call (_chat_token_field chooses by the model name)
FirstParams(api) ==
    IF api = "chat" THEN {{f} : f \in ChatTokenFields}
    ELSE {{"max_output_tokens"}}

\* one completion call with the outcomes of its first and second attempt
Completion(api, params, e1, e2) ==
    /\ unit' = [fn |-> "completion", prov |-> api,
                arg |-> [params |-> params, e1 |-> e1, e2 |-> e2],
                out |-> call_api(api, params, e1, e2)]
    /\ UNCHANGED others

\* settings.py:70 and media_service.py:19
media_max_size_mb == 10
max_size_bytes == media_max_size_mb * 1024 * 1024

\* sizes of a response body, and what its Content-Length header says: no
\* header (chunked transfer), a text that is no number, or a number; the
\* number is the length of the body as sent, which for a compressed body
\* is less than the length of response.content and more than nothing
BodySizes == {0, 1, max_size_bytes, max_size_bytes + 1}
ContentLengths(size) ==
    {[given |-> g, value |-> 0] : g \in {"absent", "garbage"}}
      \cup {[given |-> "number", value |-> n] :
              n \in {m \in BodySizes : m = size \/ (0 < m /\ m < size)}}

\* media_service.py:37-78  download_media: the path returned (or None) and
\* the number of bytes written to the temporary file
download_media(fetched, header, size) ==
    IF ~fetched \/ header.given = "garbage"
    THEN [path |-> "None", written |-> 0, file |-> FALSE]
    ELSE LET content_length == IF header.given = "absent" THEN 0
                               ELSE header.value
         IN  IF content_length > max_size_bytes
             THEN [path |-> "None", written |-> 0, file |-> FALSE]
             ELSE [path |-> "file_path", written |-> size, file |-> TRUE]

\* one media fetch
Download(fetched, header, size) ==
    /\ unit' = [fn |-> "download", prov |-> "",
                arg |-> [fetched |-> fetched, header |-> header,
                         size |-> size],
                out |-> download_media(fetched, header, size)]
    /\ UNCHANGED others

NextUnits ==
    \/ \E prov \in Providers :
          \E raw \in RawSenders(prov) : NormalizeSender(prov, raw)
    \/ \E prov \in Providers :
          \E a \in KindInputs(prov) : DetectKind(prov, a)
    \/ \E api \in {"chat", "responses"} :
          \E params \in FirstParams(api) :
             \E e1 \in Outcomes(params), e2 \in Outcomes(TokenFields) :
                Completion(api, params, e1, e2)
    \/ \E fetched \in BOOLEAN, size \in BodySizes :
          \E header \in ContentLengths(size) : Download(fetched, header, size)

SpecUnits == Init /\ [][NextUnits]_vars

\* ------------------------------------------------------------ properties
Range(q) == {q[i] : i \in DOMAIN q}
InFlight(r) == proc[r].pc \in DownloadPcs \cup AIPcs
Texts(r) == {proc[r].sends[i].text : i \in DOMAIN proc[r].sends}
\* the incoming rows request r inserted that are still stored
OwnRows(ms, r) == {m \in ms : m.req = r /\ m.direction = "incoming"}

\* number of calls instance l admitted for id with a timestamp in (lo, hi]
AdmittedIn(l, id, lo, hi) ==
    Cardinality({i \in DOMAIN admitted[l][id] :
                   lo < admitted[l][id][i] /\ admitted[l][id][i] <= hi})

\* C1: for every RateLimiter instance and every identifier, after any
\* sequence of is_allowed calls at non-decreasing times, the calls admitted
\* with a timestamp in any trailing window (t - W, t] number at most N.
C1_SlidingWindow ==
    \A l \in Providers, id \in Senders, t \in 0..MaxTime :
        AdmittedIn(l, id, t - window_seconds[l], t) <= max_requests[l]

\* C1 witness: the quota of the current window is used up and more than N
\* calls have been admitted over time (the window has slid).
C1_Witness ==
    \E id \in Senders :
        /\ AdmittedIn(RL, id, now - window_seconds[RL], now) = max_requests[RL]
        /\ Len(admitted[RL][id]) > max_requests[RL]

\* C2: a sender that is not on the allow-list never triggers an AI call,
\* whatever the message kind and whatever events came before.
C2_NoAIForUnlisted ==
    \A r \in Reqs :
        proc[r].frm \notin WhitelistedNumbers => proc[r].ai = <<>>

\* C2 witness: an unlisted sender has sent two events, both were stopped at
\* the whitelist gate with the notice, while a listed sender would go on.
C2_Witness ==
    \E r1, r2 \in Reqs :
        /\ r1 # r2
        /\ proc[r1].frm \notin WhitelistedNumbers
        /\ proc[r2].frm = proc[r1].frm
        /\ proc[r1].gate = "rejected" /\ proc[r2].gate = "rejected"
        /\ Texts(r1) = {NOT_AUTHORIZED_TEXT}
        /\ Texts(r2) = {NOT_AUTHORIZED_TEXT}

\* C3: an event that passed the whitelist gate and did not hit a stored
\* duplicate of its id inserted exactly one incoming message (of which at
\* most one row is stored), and a run inserts at most one outgoing message.
C3_OneIncomingAtMostOneOutgoing ==
    \A r \in Reqs :
        /\ (proc[r].gate = "passed" /\ ~proc[r].dup) => proc[r].created = 1
        /\ Cardinality(OwnRows(messages, r)) <= 1
        /\ proc[r].out_created <= 1
        /\ Cardinality({m \in messages :
                          m.req = r /\ m.direction = "outgoing"}) <= 1

\* C3 witness: a run has ended with True, its incoming row and the
\* outgoing row of its reply are both stored.
C3_Witness ==
    \E r \in Reqs :
        /\ proc[r].pc = "done" /\ proc[r].ret = "True"
        /\ proc[r].created = 1 /\ proc[r].out_created = 1
        /\ Cardinality(OwnRows(messages, r)) = 1

\* requests of sender id that instance l admitted at a time in (lo, hi]
AllowedAt(l, id, lo, hi) ==
    {r \in Reqs : /\ proc[r].provider = l /\ proc[r].frm = id
                  /\ proc[r].rl = "allowed"
                  /\ lo < proc[r].at /\ proc[r].at <= hi}

\* C5: however the coroutines of concurrently handled requests of one
\* sender interleave, an endpoint's limiter admits at most N of them in
\* any window (t - W, t].
C5_NoQuotaOverrun ==
    \A l \in Providers, id \in Senders, t \in 0..MaxTime :
        Cardinality(AllowedAt(l, id, t - window_seconds[l], t))
            <= max_requests[l]

\* C5 witness: while an admitted request of a sender is suspended in the
\* pipeline, a second request of that sender on the same endpoint, inside
\* the window, is denied.
C5_Witness ==
    \E r1, r2 \in Reqs :
        /\ InFlight(r1) /\ proc[r1].rl = "allowed"
        /\ proc[r2].rl = "denied"
        /\ proc[r2].provider = proc[r1].provider
        /\ proc[r2].frm = proc[r1].frm
        /\ proc[r2].at - proc[r1].at < window_seconds[proc[r1].provider]

\* C6: in no reachable state are two incoming messages with the same
\* provider message id stored, whatever the interleaving of deliveries.
C6_NoDuplicateIncoming ==
    \A m1, m2 \in messages :
        (/\ m1.direction = "incoming" /\ m2.direction = "incoming"
         /\ m1.twilio_message_sid = m2.twilio_message_sid) => m1 = m2

\* C6 witness: two deliveries of the same id are in the pipeline at the
\* same time, and one row with that id is stored.
C6_Witness ==
    \E r1, r2 \in Reqs :
        /\ r1 # r2 /\ InFlight(r1) /\ InFlight(r2)
        /\ proc[r1].sid = proc[r2].sid
        /\ Cardinality(get_message_by_sid(messages, proc[r1].sid)) = 1

\* the rows a step removed from the messages table
Removed == {m \in messages : m \notin messages'}
LastSend(p) == p.sends[Len(p.sends)]
LastMark(p) == p.marks[Len(p.marks)]

\* C4: on the Meta and WAHA endpoints, when an endpoint is delivered again
\* an event of a sender whose incoming message it has stored under that id
\* (the handler deletes the stored row), then once the delivery has been
\* handled exactly one incoming message with that id is stored and it is
\* the one this delivery inserted.
C4_RedeliveryReplaces ==
    [][\A r \in Reqs :
         (/\ proc[r].pc = "idle" /\ proc'[r].pc # "idle"
          /\ proc'[r].provider \in {"meta", "waha"}
          /\ proc'[r].deleted > 0)
         => \A d \in Removed :
              (/\ d.direction = "incoming"
               /\ d.user = proc'[r].frm
               /\ proc[d.req].provider = proc'[r].provider) =>
                \E m \in messages' :
                    /\ m.req = r /\ m.direction = "incoming"
                    /\ get_message_by_sid(messages', d.twilio_message_sid) = {m}
      ]_vars

\* C7: a request the rate limiter denies has no effect: it sends nothing,
\* makes no AI call and leaves users, conversations and messages as they
\* were, on every endpoint.
C7_DeniedHasNoEffect ==
    [][\A r \in Reqs :
         (proc[r].pc = "idle" /\ proc'[r].rl = "denied")
         => /\ proc'[r].sends = <<>> /\ proc'[r].ai = <<>>
            /\ users' = users
            /\ conversations' = conversations
            /\ messages' = messages
      ]_vars

BranchNames == {"text", "image", "audio", "document"}

\* the run's incoming row, where still stored, is processed with an error
MarkedFailed(ms, p, r) ==
    /\ p.marks # <<>> /\ LastMark(p).err # ""
    /\ \A m \in OwnRows(ms, r) : m.is_processed /\ m.error_message # ""

\* C8 as claimed: in each of the Text, Image, Audio and Document branches
\* an exception is caught inside the branch and does not leave it, the
\* message is marked processed with a non-empty error and an apology is
\* sent.
C8_CaughtInsideEveryBranch ==
    \A r \in Reqs :
        (proc[r].caught # <<>> /\ proc[r].caught[1] \in BranchNames)
        => /\ "outer" \notin Range(proc[r].caught)
           /\ proc[r].marks # <<>> /\ LastMark(proc[r]).err # ""
           /\ LastSend(proc[r]).text \in ApologyTexts

\* C8 as amended: when the AI call of a branch fails, the Image, Audio and
\* Document branches catch the exception themselves, mark the incoming
\* message processed with a non-empty error and return their apology, which
\* is sent as the reply (the run returns True); the Text branch marks the
\* message in the same way but re-raises: run from Audio the exception is
\* caught by the Audio branch, run directly it leaves the branch and is
\* caught by process_incoming_message, which sends the generic error reply
\* and returns False.
C8_BranchFailure ==
    [][\A r \in Reqs :
         (proc[r].pc \in AIPcs /\ proc'[r].caught # <<>>)
         => /\ MarkedFailed(messages', proc'[r], r)
            /\ proc'[r].pc = "done"
            /\ CASE proc[r].pc = "ai_text" ->
                      /\ proc'[r].caught = <<"text", "outer">>
                      /\ LastSend(proc'[r]).text = ERROR_TEXT
                      /\ proc'[r].ret = "False"
                 [] proc[r].pc = "ai_image" ->
                      /\ proc'[r].caught = <<"image">>
                      /\ LastSend(proc'[r]).text = ERR_IMAGE_TEXT
                      /\ proc'[r].ret = "True"
                 [] proc[r].pc = "ai_transcribe" ->
                      /\ proc'[r].caught = <<"audio">>
                      /\ LastSend(proc'[r]).text = ERR_AUDIO_TEXT
                      /\ proc'[r].ret = "True"
                 [] proc[r].pc = "ai_audio_text" ->
                      /\ proc'[r].caught = <<"text", "audio">>
                      /\ LastSend(proc'[r]).text = ERR_AUDIO_TEXT
                      /\ proc'[r].ret = "True"
                 [] proc[r].pc = "ai_document" ->
                      /\ proc'[r].caught = <<"document">>
                      /\ LastSend(proc'[r]).text = ERR_DOCUMENT_TEXT
                      /\ proc'[r].ret = "True"
      ]_vars

\* C8 witness: the AI call of a Text run failed; its stored row carries the
\* error, the exception left the branch and the generic error was sent.
C8_Witness ==
    \E r \in Reqs :
        /\ proc[r].pc = "done"
        /\ proc[r].caught = <<"text", "outer">>
        /\ proc[r].ai = <<"generate_response">>
        /\ LastSend(proc[r]).text = ERROR_TEXT
        /\ \E m \in OwnRows(messages, r) : m.error_message = AI_ERROR

\* C9: on each of the three endpoints, an event that was authorized,
\* admitted by the rate limiter and sent by a listed sender has had a reply
\* send attempted by the time its handler has returned.
C9_AlwaysAnswered ==
    \A r \in Reqs :
        (/\ proc[r].pc = "done" /\ proc[r].http = 200
         /\ proc[r].rl = "allowed"
         /\ proc[r].frm \in WhitelistedNumbers)
        => \E i \in DOMAIN proc[r].sends : proc[r].sends[i].to = proc[r].frm

\* the terminal states of a run of process_incoming_message
Replied(p) ==
    /\ p.ret = "True" /\ p.gate = "passed"
    /\ "outer" \notin Range(p.caught)
    /\ Len(p.sends) = 1
    /\ p.sends[1].text \notin {NOT_AUTHORIZED_TEXT, ERROR_TEXT}
Rejected(p) ==
    /\ p.ret = "False" /\ p.gate = "rejected"
    /\ p.caught = <<>> /\ p.ai = <<>>
    /\ Len(p.sends) = 1 /\ p.sends[1].text = NOT_AUTHORIZED_TEXT
Failed(p) ==
    /\ p.ret = "False" /\ p.gate = "passed"
    /\ p.caught # <<>> /\ p.caught[Len(p.caught)] = "outer"
    /\ p.sends # <<>> /\ LastSend(p).text = ERROR_TEXT

\* the coroutine of request r can take its next step
CanResume(r) ==
    ENABLED (\/ \E got, hasText, ok1, ok2 \in BOOLEAN :
                   DownloadDone(r, got, hasText, ok1, ok2)
             \/ \E aiOk, ok1, ok2 \in BOOLEAN : AIDone(r, aiOk, ok1, ok2))

\* C10: a run of process_incoming_message that has not returned can always
\* go on, and one that has returned ended in exactly one of Replied
\* (returns True), Rejected (returns False) and Failed (returns False): it
\* returned a value, no exception reached the webhook handler.
C10_TerminalStates ==
    \A r \in Reqs :
        proc[r].gate # "none" =>
            IF proc[r].pc = "done"
            THEN /\ proc[r].ret \in {"True", "False"}
                 /\ \/ Replied(proc[r]) /\ ~Rejected(proc[r]) /\ ~Failed(proc[r])
                    \/ ~Replied(proc[r]) /\ Rejected(proc[r]) /\ ~Failed(proc[r])
                    \/ ~Replied(proc[r]) /\ ~Rejected(proc[r]) /\ Failed(proc[r])
            ELSE InFlight(r) /\ proc[r].ret = "none" /\ CanResume(r)

\* C10 witness: runs have ended in two different terminal states, one of
\* them Failed.
C10_Witness ==
    \E r1, r2 \in Reqs :
        /\ proc[r1].pc = "done" /\ Failed(proc[r1])
        /\ proc[r2].pc = "done" /\ (Replied(proc[r2]) \/ Rejected(proc[r2]))

\* the pcs at which the Text path waits for generate_response
TextPcs == {"ai_text", "ai_audio_text"}

\* the context the Text path is to call the AI with: the rows of the
\* conversation among the newest MaxConversationHistory, the current one
\* left out, oldest first, then the new user text
ExpectedContext(ms, conv, current_id, message_text) ==
    LET h == get_conversation_history(ms, conv, MaxConversationHistory)
        earlier == SelectSeq(h, LAMBDA m : m.id # current_id)
    IN  Append(conversation_context(earlier),
               [role |-> "user", content |-> message_text])

\* C11: when the Text path calls the AI, the context ends with the new user
\* text and before it holds the earlier messages of the conversation (within
\* the history limit) verbatim, oldest first, incoming as user and outgoing
\* as assistant, the just-stored current message being the one left out.
C11_TextContext ==
    [][\A r \in Reqs :
         (proc[r].pc \notin TextPcs /\ proc'[r].pc \in TextPcs)
         => proc'[r].ctx =
              ExpectedContext(messages', proc'[r].conv, proc'[r].msg_id,
                              IF proc'[r].pc = "ai_text" THEN proc'[r].body
                              ELSE TRANSCRIPTION)
      ]_vars

\* C12: a temporary media file a branch has downloaded is deleted before
\* the branch returns, whether the AI call or the extraction after the
\* download succeeded or raised: no run ends with its file still on disk.
C12_TempFileRemoved ==
    \A r \in Reqs : proc[r].pc = "done" => ~proc[r].file

\* C13: when the download of an image event's media fails, exactly one
\* incoming message of the event is stored and its error field is not
\* empty, the reply is the fixed could-not-download text and no AI call was
\* made.
C13_ImageDownloadFailure ==
    [][\A r \in Reqs :
         (proc[r].pc = "dl_image" /\ proc'[r].pc = "done")
         => /\ \E m \in OwnRows(messages', r) :
                  /\ OwnRows(messages', r) = {m}
                  /\ m.error_message # ""
            /\ proc'[r].sends[1].text = NO_IMAGE_TEXT
            /\ proc'[r].ai = <<>>
      ]_vars

\* C14 as claimed: a document event whose content type is not PDF is
\* answered with the only-PDF text and without an AI call, whatever the
\* outcome of the download.
C14_NonPdfAlwaysUnsupported ==
    [][\A r \in Reqs :
         (/\ proc[r].pc = "dl_document" /\ proc[r].mime # PDF
          /\ proc'[r] # proc[r])
         => /\ proc'[r].pc = "done"
            /\ proc'[r].sends[1].text = ONLY_PDF_TEXT
            /\ proc'[r].ai = <<>>
      ]_vars

\* C14 as amended: a document event whose content type is not PDF never
\* leads to an AI call; it is answered with the only-PDF text when its
\* media was downloaded and with the could-not-download text when the
\* download failed.
C14_NonPdfDocument ==
    [][\A r \in Reqs :
         (/\ proc[r].pc = "dl_document" /\ proc[r].mime # PDF
          /\ proc'[r] # proc[r])
         => /\ proc'[r].pc = "done"
            /\ proc'[r].ai = <<>>
            /\ proc'[r].sends[1].text =
                  IF proc'[r].dl = "ok" THEN ONLY_PDF_TEXT
                  ELSE NO_DOCUMENT_TEXT
      ]_vars

\* C14 witness: a run downloaded its document, made no AI call and
\* answered that only PDF documents are processed.
C14_Witness ==
    \E r \in Reqs :
        /\ proc[r].pc = "done" /\ proc[r].dl = "ok"
        /\ proc[r].ai = <<>>
        /\ Texts(r) = {ONLY_PDF_TEXT}

\* the kinds no branch handles
UnsupportedKinds == {"video", "location", "contact", "unknown"}

\* C15: a run for a video, location, contact or unknown event of a listed
\* sender that stored its incoming message replies with the fixed
\* not-yet-supported text, makes no AI call and fetches no media.
C15_UnsupportedKinds ==
    \A r \in Reqs :
        (/\ proc[r].gate = "passed" /\ proc[r].created = 1
         /\ proc[r].kind \in UnsupportedKinds)
        => /\ proc[r].pc = "done"
           /\ proc[r].sends[1].text = UNSUPPORTED_TEXT
           /\ proc[r].ai = <<>>
           /\ proc[r].dl = "none" /\ ~proc[r].file

\* C15 witness: a location event and a video event of the listed sender
\* were both answered with the not-yet-supported text.
C15_Witness ==
    \E r1, r2 \in Reqs :
        /\ proc[r1].kind = "location" /\ proc[r2].kind = "video"
        /\ proc[r1].frm \in WhitelistedNumbers
        /\ proc[r2].frm \in WhitelistedNumbers
        /\ Texts(r1) = {UNSUPPORTED_TEXT} /\ Texts(r2) = {UNSUPPORTED_TEXT}
        /\ proc[r1].ret = "True" /\ proc[r2].ret = "True"

\* C16: in the Audio path the media is fetched first, then transcribed,
\* then the transcription is written to the content of the incoming message,
\* then the Text path is run with the transcription as the user message;
\* the reply sent is the answer of the Text path prefixed with the
\* transcription.
C16_AudioOrder ==
    [][\A r \in Reqs :
         /\ (proc'[r].pc = "ai_transcribe" /\ proc[r].pc # "ai_transcribe")
            => /\ proc[r].pc = "dl_audio" /\ proc'[r].dl = "ok"
               /\ proc'[r].ai = <<"transcribe_audio">>
         /\ (proc'[r].pc = "ai_audio_text" /\ proc[r].pc # "ai_audio_text")
            => /\ proc[r].pc = "ai_transcribe"
               /\ proc'[r].ai = <<"transcribe_audio", "generate_response">>
               /\ \E m \in messages' :
                     /\ m.id = proc'[r].msg_id /\ m.direction = "incoming"
                     /\ m.content = TRANSCRIPTION
               /\ proc'[r].ctx[Len(proc'[r].ctx)] =
                     [role |-> "user", content |-> TRANSCRIPTION]
         /\ (proc[r].pc = "ai_audio_text" /\ proc'[r].pc = "done"
             /\ proc'[r].caught = <<>>)
            => proc'[r].sends[1].text = HEARD_ANSWER
         /\ (proc[r].sends = <<>> /\ proc'[r].sends # <<>>
             /\ proc'[r].sends[1].text = HEARD_ANSWER)
            => proc[r].pc = "ai_audio_text"
      ]_vars

\* C16 witness: an audio run fetched its media, transcribed it, ran the
\* Text path and replied with the prefixed answer.
C16_Witness ==
    \E r \in Reqs :
        /\ proc[r].pc = "done" /\ proc[r].kind = "audio"
        /\ proc[r].dl = "ok"
        /\ proc[r].ai = <<"transcribe_audio", "generate_response">>
        /\ Texts(r) = {HEARD_ANSWER}
        /\ \E m \in OwnRows(messages, r) : m.content = TRANSCRIPTION

\* C17: send_message of the gateway attempts its steps in the order
\* mark-as-seen, start-typing, sleep, stop-typing, deliver; a failure of an
\* earlier step never ends the call, so a call that has returned has
\* attempted the delivery, and never before stop-typing was attempted.
C17_WahaSendOrder ==
    /\ Len(waha.steps) <= Len(WahaSteps)
    /\ \A i \in DOMAIN waha.steps : waha.steps[i] = WahaSteps[i]
    /\ waha.pc \in Range(WahaSteps) => waha.steps[Len(waha.steps)] = waha.pc
    /\ (waha.pc = "done" /\ waha.http # 403) => waha.steps = WahaSteps

\* C17 witness: mark-as-seen, start-typing and stop-typing all failed and
\* the message was delivered all the same.
C17_Witness ==
    /\ waha.pc = "done"
    /\ waha.failed = {"send_seen", "start_typing", "stop_typing"}
    /\ waha.steps = WahaSteps
    /\ waha.ret \notin {"none", "None"}

\* C18: the typing delay is clamp(length * u, 1.0, 5.0) seconds for the
\* multiplier u drawn in that send from [0.05, 0.1]: it lies in [1.0, 5.0],
\* is exactly 1.0 for a text of length 4 and lies in [1.0, 4.0] for a text
\* of length 40.
C18_TypingDelay ==
    waha.pc \in {"sleep", "stop_typing", "deliver"} =>
        /\ waha.u \in Multipliers
        /\ MinDelay <= waha.typing_delay /\ waha.typing_delay <= MaxDelay
        /\ waha.typing_delay =
              IF waha.len * waha.u < MinDelay THEN MinDelay
              ELSE IF waha.len * waha.u > MaxDelay THEN MaxDelay
              ELSE waha.len * waha.u
        /\ waha.len = 4 => waha.typing_delay = 1000
        /\ waha.len = 40 => waha.typing_delay <= 4000

\* C18 witness: a text of length 4 is being sent with the largest
\* multiplier and the delay is one second.
C18_Witness ==
    /\ waha.pc = "sleep" /\ waha.len = 4 /\ waha.u = 100
    /\ waha.typing_delay = MinDelay

\* a stored outgoing message that carries the identifier the provider
\* returned for a send of request r with the given text
Persisted(ms, r, text) ==
    \E m \in ms : /\ m.direction = "outgoing"
                  /\ m.twilio_message_sid = OutSid(r)
                  /\ m.content = text

\* C19: every successful outbound send of the pipeline (the provider
\* returned a message identifier) is stored as an outgoing message that
\* carries the returned identifier.
C19_SendsPersisted ==
    \A r \in Reqs : \A i \in DOMAIN proc[r].sends :
        proc[r].sends[i].ok => Persisted(messages, r, proc[r].sends[i].text)

\* the two notices the pipeline sends outside _send_response
Notices == {NOT_AUTHORIZED_TEXT, ERROR_TEXT}

\* C19 as amended: a successful send is stored as an outgoing message with
\* the returned identifier exactly when it is the reply of a run's branch
\* (made by _send_response); the not-authorized notice and the generic
\* error notice are sent without being stored.
C19_RepliesPersisted ==
    \A r \in Reqs : \A i \in DOMAIN proc[r].sends :
        proc[r].sends[i].ok =>
            (Persisted(messages, r, proc[r].sends[i].text)
                <=> proc[r].sends[i].text \notin Notices)

\* C19 witness: one run's reply was accepted by the provider and is stored
\* with the returned identifier, and another run's generic error notice was
\* accepted as well and left no outgoing message.
C19_Witness ==
    \E r1, r2 \in Reqs :
        /\ proc[r1].pc = "done" /\ proc[r2].pc = "done"
        /\ \E i \in DOMAIN proc[r1].sends :
              /\ proc[r1].sends[i].ok
              /\ proc[r1].sends[i].text \notin Notices
              /\ Persisted(messages, r1, proc[r1].sends[i].text)
        /\ proc[r2].sends # <<>> /\ LastSend(proc[r2]).ok
        /\ LastSend(proc[r2]).text = ERROR_TEXT
        /\ ~\E m \in messages : m.twilio_message_sid = OutSid(r2)

\* the greeting of a successful initiation is stored as an outgoing message
\* of the user's conversation with the identifier the gateway returned
C19_GreetingPersisted ==
    (waha.pc = "done" /\ waha.caller = "initiate"
       /\ waha.ret \notin {"none", "None"})
        => \E m \in messages :
              /\ m.direction = "outgoing" /\ m.twilio_message_sid = waha.ret
              /\ m.content = GREETING_MESSAGE
              /\ m.conversation_id = waha.conv /\ m.user = waha.to

\* gateway events that passed the rate limiter and whose chat identity is
\* not the one derived from the sender's phone number
SuffixedEvents ==
    {r \in Reqs : /\ proc[r].pc = "done" /\ proc[r].provider = "waha"
                  /\ proc[r].rl = "allowed"
                  /\ proc[r].chat # get_chat_id(proc[r].frm)}

\* C20: for a gateway event whose chat identity differs from the bare
\* sender phone number, the chat identity of the payload goes through the
\* processor unchanged and the reply is delivered to exactly that identity.
C20_ChatIdentityThreaded ==
    \A r \in SuffixedEvents :
        /\ proc[r].ret \in {"True", "False"}
        /\ proc[r].sends # <<>>
        /\ \A i \in DOMAIN proc[r].sends : proc[r].sends[i].to = proc[r].chat

\* requests that have been answered
Answered == {r \in Reqs : proc[r].pc = "done"}

\* the request was refused at the boundary: its body could not be parsed
\* or its credential is wrong or missing
BoundaryFailure(p) == Malformed(p.event) \/ p.auth # "valid"

\* C21: every POST handler answers 200 with body status "ok" once the
\* event has been accepted for processing, also when the event is dropped
\* by the rate limit, the whitelist or the duplicate handling, and answers
\* non-2xx only for transport, parse or authorization failures.
C21_HandlerResponses ==
    \A r \in Answered :
        /\ proc[r].http = 200 => proc[r].status = "ok"
        /\ proc[r].http # 200 => BoundaryFailure(proc[r])
        /\ ~BoundaryFailure(proc[r]) => proc[r].http = 200

\* the request left no trace beyond its answer: the rate limiter was not
\* consulted, no user was looked up, nothing was stored or deleted, no AI
\* call was made and nothing was sent
NoProcessing(p) ==
    /\ p.rl = "none" /\ p.gate = "none"
    /\ p.created = 0 /\ p.out_created = 0 /\ p.deleted = 0
    /\ p.ai = <<>> /\ p.sends = <<>>

\* C22: on every provider's POST endpoint a request whose signature, token
\* or API key is missing or wrong is rejected as an authorization failure
\* before normalization: no rate-limit accounting, no change of a stored
\* record, no AI call and no reply.
C22_BadCredentialRejected ==
    \A r \in Reqs :
        (proc[r].pc # "idle" /\ ~Malformed(proc[r].event)
           /\ proc[r].auth \in {"invalid", "missing"})
        => /\ proc[r].pc = "done" /\ proc[r].http = 403
           /\ NoProcessing(proc[r])

\* events a handler is to skip: a gateway event of another type than
\* message, a gateway message the bot itself sent, a cloud-platform change
\* without messages
Ignorable(p) ==
    \/ /\ p.provider = "waha" /\ p.auth = "valid"
       /\ p.event \in {"non_message", "from_me"}
    \/ p.provider = "meta" /\ p.event = "no_messages"

\* C23: an ignorable event is accepted (200, status "ok") and is a no-op:
\* the step that answers it consumes no rate-limit quota, changes no stored
\* record, makes no AI call and sends no reply.
C23_IgnorableNoOp ==
    [][\A r \in Reqs :
         (proc[r].pc = "idle" /\ proc'[r].pc # "idle" /\ Ignorable(proc'[r]))
         => /\ proc'[r].pc = "done"
            /\ proc'[r].http = 200 /\ proc'[r].status = "ok"
            /\ NoProcessing(proc'[r])
            /\ UNCHANGED <<requests, admitted, dbvars>>]_vars

\* C23 witness: an echo of the bot's own message on the gateway and a
\* change without messages on the cloud platform were both answered with
\* 200; no quota is used and nothing has been stored.
C23_Witness ==
    \E r1, r2 \in Reqs :
        /\ proc[r1].pc = "done" /\ proc[r1].provider = "waha"
        /\ proc[r1].event = "from_me" /\ proc[r1].http = 200
        /\ proc[r2].pc = "done" /\ proc[r2].provider = "meta"
        /\ proc[r2].event = "no_messages" /\ proc[r2].http = 200
        /\ \A l \in Providers, id \in Senders : requests[l][id] = <<>>
        /\ messages = {} /\ users = {}

\* the canonical phone number of a raw sender: one "+" and its digits
Canonical(raw) == <<"+">> \o SelectSeq(raw, LAMBDA x : x \in Digits)

\* C24: on every provider path the sender used as rate-limit key and for
\* the user lookup is the canonical phone number, one leading "+" and the
\* digits: a raw sender without "+" gets one, a raw sender that carries
\* "+" is left with exactly one.
C24_CanonicalSender ==
    unit.fn = "sender" => unit.out = Canonical(unit.arg)

\* the words each provider uses in its type field, and the kind each means
Vocabulary(prov) ==
    IF prov = "meta"
    THEN {"text", "image", "audio", "voice", "video", "document", "location",
          "contacts"}
    ELSE {"chat", "text", "image", "audio", "voice", "ptt", "video",
          "document", "location", "vcard"}
KindOfType(type) ==
    CASE type \in {"chat", "text"} -> "text"
      [] type \in {"audio", "voice", "ptt"} -> "audio"
      [] type \in {"vcard", "contacts"} -> "contact"
      [] OTHER -> type

\* the kind a declared MIME type stands for: the three prefixes, and PDF
\* and the Word types as document
KindOfMime(mime) ==
    CASE PrefixOf(mime) = "image/" -> "image"
      [] PrefixOf(mime) = "audio/" -> "audio"
      [] PrefixOf(mime) = "video/" -> "video"
      [] mime \in {PDF, MSWORD, DOCX} -> "document"
      [] OTHER -> ""

\* the event carries media and no explicit type
TypeAbsent(prov, a) ==
    /\ prov # "meta" /\ a.type = "" /\ a.data_type = ""
    /\ prov = "twilio" => a.hasMedia

\* C25: each adapter derives the kind from the explicit type field when
\* there is one; without one it falls back to the declared MIME type (the
\* prefixes image/, audio/, video/, and PDF and Word types as document);
\* a type it does not know maps to unknown, and every input yields a kind.
C25_KindDerivation ==
    unit.fn = "kind" =>
        LET a == unit.arg
        IN  /\ unit.out \in MessageType
            /\ a.type \in Vocabulary(unit.prov) => unit.out = KindOfType(a.type)
            /\ a.type = "sticker" => unit.out = "unknown"
            /\ (TypeAbsent(unit.prov, a) /\ KindOfMime(a.mime) # "")
               => unit.out = KindOfMime(a.mime)

\* the first attempt ended with an unsupported-parameter error about the
\* token-limit parameter that was sent
TokenLimitRejected(a) ==
    a.e1.type \in {"BadRequestError", "TypeError"} /\ a.e1.rejected \in a.params

\* C26: a completion call that fails with a detectable unsupported-
\* parameter error about the token-limit parameter is retried exactly once
\* with the alternate parameter shape, the rejected parameter not being
\* sent again; a failure of the retry propagates; nothing else is retried.
C26_RetryOnce ==
    unit.fn = "completion" =>
        LET a == unit.arg
            o == unit.out
        IN  /\ Len(o.attempts) <= 2
            /\ TokenLimitRejected(a)
               => /\ Len(o.attempts) = 2
                  /\ a.e1.rejected \notin o.attempts[2]
                  /\ o.result = IF a.e2 = OK THEN "response" ELSE "raised"
            /\ (a.e1 # OK /\ ~TokenLimitRejected(a))
               => Len(o.attempts) = 1 /\ o.result = "raised"

\* C27: the media fetch never yields content larger than the configured
\* maximum: a response whose body exceeds it is rejected, download_media
\* returns nothing and writes no temporary file.
C27_SizeCeiling ==
    unit.fn = "download" =>
        /\ unit.out.written <= max_size_bytes
        /\ unit.arg.size > max_size_bytes
           => unit.out.path = "None" /\ ~unit.out.file

\* C28: duplicate detection is scoped per provider: the arrival of an
\* event deletes, or collides with, a stored message only if that message
\* is an incoming one the same provider delivered.
C28_DedupPerProvider ==
    [][\A r \in Reqs :
         (proc[r].pc = "idle" /\ proc'[r].pc # "idle")
         => /\ \A d \in messages \ messages' :
                  /\ d.direction = "incoming"
                  /\ proc[d.req].provider = proc'[r].provider
            /\ proc'[r].dup
               => \E m \in messages :
                     /\ m.direction = "incoming"
                     /\ proc[m.req].provider = proc'[r].provider]_vars

\* ------------------------------------------------------------------
\* C29  A message of a sender that is not on the allow-list, once handed
\* to the processor, leaves a User record for the sender (not
\* whitelisted), sends exactly one notice, the fixed not-authorized text,
\* and returns False at once: the conversations table is untouched, no
\* incoming or outgoing message row is inserted, no media is fetched and
\* no AI call is made.
Unlisted(r) ==
    /\ proc[r].pc = "idle"
    /\ proc'[r].gate # "none"
    /\ proc'[r].frm \notin WhitelistedNumbers

C29_UnlistedShortCircuit ==
    [][\A r \in Reqs :
         Unlisted(r) =>
            /\ \E u \in users' : /\ u.phone_number = proc'[r].frm
                                 /\ ~u.is_whitelisted
            /\ Len(proc'[r].sends) = 1
            /\ proc'[r].sends[1].to = proc'[r].frm
            /\ proc'[r].sends[1].text = NOT_AUTHORIZED_TEXT
            /\ proc'[r].gate = "rejected"
            /\ proc'[r].pc = "done"
            /\ proc'[r].ret = "False"
            /\ conversations' = conversations
            /\ messages' \subseteq messages
            /\ proc'[r].created = 0
            /\ proc'[r].out_created = 0
            /\ proc'[r].conv = 0
            /\ proc'[r].dl = "none"
            /\ proc'[r].ai = <<>>]_vars

\* C29 witness: an unlisted sender was rejected on first contact, its
\* User record exists, and no conversation of it exists.
C29_Witness ==
    \E r \in Reqs :
        /\ proc[r].gate = "rejected"
        /\ proc[r].frm \notin WhitelistedNumbers
        /\ Len(proc[r].sends) = 1
        /\ \E u \in users : u.phone_number = proc[r].frm /\ ~u.is_whitelisted
        /\ \A c \in conversations : c.user # proc[r].frm

\* ------------------------------------------------------------------
\* C30  Whatever inbound events and initiation calls have been handled,
\* no user has two active conversations, every stored message of a user
\* belongs to that user's most recently updated active conversation, and a
\* step adds a conversation only for a user who had no active one (and
\* never removes one).
OneActive ==
    \A c, d \in conversations :
        (c.user = d.user /\ c.is_active /\ d.is_active) => c = d

Attached ==
    \A m \in messages :
        \E c \in get_active_conversation(conversations, m.user) :
            c.id = m.conversation_id

CreatedWhenNone ==
    /\ conversations \subseteq conversations'
    /\ \A c \in conversations' \ conversations :
          get_active_conversation(conversations, c.user) = {}

C30_OneActiveConversation ==
    [][OneActive' /\ Attached' /\ CreatedWhenNone]_vars

\* C30 witness: a conversation opened by an initiation call holds both the
\* stored greeting and an incoming message of a later inbound event of the
\* same user, and it is that user's only conversation.
C30_Witness ==
    \E g, i \in messages :
        /\ g.req = 0 /\ g.direction = "outgoing"
        /\ i.req # 0 /\ i.direction = "incoming"
        /\ g.user = i.user
        /\ g.conversation_id = i.conversation_id
        /\ Cardinality({c \in conversations : c.user = g.user}) = 1

\* ------------------------------------------------------------------
\* C31  A call is_allowed(id) at time t returns True exactly when fewer
\* than N stored timestamps of id are strictly newer than t - W; it then
\* leaves those timestamps followed by t.  Otherwise it returns False and
\* leaves exactly those timestamps (nothing recorded, older ones pruned).
\* The lists of the other identifiers are untouched.
StrictlyNewer(ts, t, w) == SelectSeq(ts, LAMBDA s : t - s < w)

C31_IsAllowed ==
    [][unit'.fn = "is_allowed" =>
        LET id == unit'.arg[1]
            t == unit'.arg[2]
            ok == unit'.out[1]
            counted == StrictlyNewer(requests[RL][id], t, window_seconds[RL])
        IN  /\ ok <=> Len(counted) < max_requests[RL]
            /\ ok => requests'[RL][id] = Append(counted, t)
            /\ ~ok => requests'[RL][id] = counted
            /\ ok <=> admitted'[RL][id] # admitted[RL][id]
            /\ \A o \in Senders \ {id} :
                  requests'[RL][o] = requests[RL][o]]_vars

\* C31 witness: a call was admitted with the quota full again, one of the
\* earlier admitted timestamps being exactly W seconds old and pruned.
C31_Witness ==
    /\ unit.fn = "is_allowed"
    /\ unit.out[1]
    /\ LET id == unit.arg[1]
           t == unit.arg[2]
       IN  /\ Len(requests[RL][id]) = max_requests[RL]
           /\ \E i \in 1..Len(admitted[RL][id]) :
                 admitted[RL][id][i] = t - window_seconds[RL]
           /\ \A i \in 1..Len(requests[RL][id]) :
                 requests[RL][id][i] > t - window_seconds[RL]


\* ------------------------------------------------------------------
\* C32  The admitted requests of one sender, counted over the three
\* endpoints together, never exceed N in any trailing window of W seconds.
AdmittedEverywhere(id, lo, hi) ==
    AdmittedIn("twilio", id, lo, hi) + AdmittedIn("meta", id, lo, hi)
        + AdmittedIn("waha", id, lo, hi)

C32_SharedQuota ==
    \A id \in Senders, t \in 0..MaxTime :
        AdmittedEverywhere(id, t - RateLimitWindowSeconds, t)
            <= RateLimitMessages

\* ------------------------------------------------------------------
\* C33  After an inbound event handed to the processor that carries a
\* display name, the stored User of the sender exists and its name is the
\* name the event carried (created with it on first contact, updated to
\* it when it differs from the stored one).
Handed(r) == proc[r].pc = "idle" /\ proc'[r].gate # "none"

C33_NameFollowsProfile ==
    [][\A r \in Reqs :
         (Handed(r) /\ proc'[r].name # "") =>
            \E u \in users' : /\ u.phone_number = proc'[r].frm
                              /\ u.whatsapp_name = proc'[r].name]_vars

\* ------------------------------------------------------------------
\* C34  A sender whose quota is used up is admitted by the first call made
\* once the oldest of its last N admitted timestamps is at least W seconds
\* old, however many of its calls were denied since its last admitted one.
C34_DeniedDoNotExtend ==
    [][unit'.fn = "is_allowed" =>
        LET id == unit'.arg[1]
            t == unit'.arg[2]
            counted == admitted[RL][id]
            oldest == Len(counted) - max_requests[RL] + 1
        IN  (/\ oldest >= 1
             /\ t - counted[oldest] >= window_seconds[RL]) => unit'.out[1]]_vars

\* C34 witness: a sender was admitted again after MaxDenied denied calls
\* in a row, at the moment its oldest timestamp was exactly W seconds old.
C34_Witness ==
    /\ unit.fn = "is_allowed"
    /\ unit.out[1]
    /\ unit.out[3] = MaxDenied
    /\ \E i \in 1..Len(admitted[RL][unit.arg[1]]) :
          admitted[RL][unit.arg[1]][i] = unit.arg[2] - window_seconds[RL]

\* ------------------------------------------------------------------
\* C35  A run sends at most one message to the sender: never a reply and
\* the generic error text both, whichever insert, download, AI call or
\* send fails.
C35_AtMostOneSend ==
    \A r \in Reqs :
        /\ Len(proc[r].sends) <= 1
        /\ ~(ERROR_TEXT \in Texts(r) /\ Texts(r) # {ERROR_TEXT})

\* ------------------------------------------------------------------
\* C36  No message sent for an event that arrived on the Meta or the WAHA
\* endpoint goes through the Twilio client.
C36_ReplyThroughArrivalProvider ==
    \A r \in Reqs :
        proc[r].provider \in {"meta", "waha"} =>
            \A i \in DOMAIN proc[r].sends : proc[r].sends[i].via # "twilio"

\* ------------------------------------------------------------------
\* C37  Once a run that passed the whitelist gate has returned, the
\* incoming message it stored is marked processed and carries an AI
\* response or an error text, whatever the kind and the branch outcome.
C37_MarkedProcessed ==
    \A r \in Reqs :
        (proc[r].pc = "done" /\ proc[r].gate = "passed") =>
            \A m \in OwnRows(messages, r) :
                /\ m.is_processed
                /\ m.ai_response # "" \/ m.error_message # ""

\* ------------------------------------------------------------------
\* C38  On each endpoint, the requests of a sender outside the allow-list
\* that were answered with the not-authorized notice number at most N in
\* any trailing window of W seconds, however many requests it made.
Noticed(prov, id, lo, hi) ==
    {r \in Reqs : /\ proc[r].provider = prov
                  /\ proc[r].frm = id
                  /\ NOT_AUTHORIZED_TEXT \in Texts(r)
                  /\ lo < proc[r].at /\ proc[r].at <= hi}

C38_NoticesBounded ==
    \A prov \in Providers, id \in Senders \ WhitelistedNumbers,
       t \in 0..MaxTime :
        Cardinality(Noticed(prov, id, t - RateLimitWindowSeconds, t))
            <= RateLimitMessages

\* C38 witness: an unlisted sender made more than N requests on one
\* endpoint within one window; N of them were answered with the notice and
\* one was denied by the limiter without any send.
C38_Witness ==
    \E r1, r2 \in Reqs :
        /\ r1 # r2
        /\ proc[r1].provider = proc[r2].provider
        /\ proc[r1].frm = proc[r2].frm
        /\ proc[r1].frm \notin WhitelistedNumbers
        /\ proc[r2].at - proc[r1].at < RateLimitWindowSeconds
        /\ proc[r1].at <= proc[r2].at
        /\ Texts(r1) = {NOT_AUTHORIZED_TEXT}
        /\ proc[r2].rl = "denied"
        /\ proc[r2].sends = <<>>
        /\ Cardinality(Noticed(proc[r1].provider, proc[r1].frm,
                               proc[r2].at - RateLimitWindowSeconds,
                               proc[r2].at)) = RateLimitMessages

\* ------------------------------------------------------------------
\* C39  The whitelist flag of a user is set when its record is created,
\* from the allow-list configured at that moment, and no inbound event,
\* initiation call or restart with another allow-list changes it; the
\* gate admits an event according to the stored flag of its sender.
FlagOf(us, phone) == {u.is_whitelisted : u \in get_user_by_phone(us, phone)}

C40_TwilioRedelivery ==
    [][\A r \in Reqs :
         (Handed(r) /\ proc'[r].provider = "twilio"
            /\ proc'[r].gate = "passed") =>
            /\ \A m \in messages' \ messages :
                  get_message_by_sid(messages, m.twilio_message_sid) = {}
            /\ proc'[r].dup <=> proc'[r].created = 0
            /\ proc'[r].dup =>
                  /\ messages' = messages
                  /\ proc'[r].pc = "done"
                  /\ proc'[r].ai = <<>>
                  /\ proc'[r].dl = "none"
                  /\ Failed(proc'[r])
                  /\ Len(proc'[r].sends) = 1]_vars

\* C40 witness: a Twilio redelivery of a stored id ended in Failed while
\* the row of the first delivery is still the only one with that id.
C40_Witness ==
    \E r \in Reqs :
        /\ proc[r].provider = "twilio"
        /\ proc[r].dup
        /\ Failed(proc[r])
        /\ \E m \in messages :
              /\ m.direction = "incoming" /\ m.req # r
              /\ proc[m.req].provider = "twilio"
              /\ get_message_by_sid(messages, m.twilio_message_sid) = {m}

====
